---- MODULE Spec2Model ----
(***************************************************************************)
(* UAForge: the weighted sampler (core/alias_sampler.py), the data catalog *)
(* (data/loader.py) and the user-agent generator (core/generator.py).      *)
(*                                                                         *)
(* Conventions.  Python lists indexed from 0 are functions over 0..n-1     *)
(* where the code indexes them (prob, alias) and sequences where the code  *)
(* only iterates or appends.  Weights are integers; the sampler's float    *)
(* arithmetic is carried out exactly, with every probability scaled by the *)
(* weight total (the float 1.0 is `total`).  A raised exception is a       *)
(* record [err |-> <kind>].                                                *)
(***************************************************************************)
EXTENDS Integers, Sequences, FiniteSets, TLC

VARIABLES
    weights_arg,   \* SpecSampler: the weight vector handed to AliasSampler(...)
    built,         \* SpecSampler: NotBuilt, or what AliasSampler(weights_arg) gave
    drawn,         \* SpecSampler history: NoDraw, or the last built.sample() call
    market_arg,    \* SpecMarket: the content of market_share.json
    processed,     \* SpecMarket: NotProcessed, or what _process_market_share gave
    files,         \* the data files on disk (the environment)
    cls_instance,  \* DataLoader._instance: 0 for None, else an index of objs
    objs,          \* the DataLoader instances ever created, by index
    n_ctor,        \* history: DataLoader() calls made
    n_loads,       \* history: runs of _load_data
    returned,      \* history: the instances some DataLoader() call returned
    last,          \* history: the last operation and its outcome
    pc,            \* SpecThreads: where each thread is in its DataLoader() call
    tl,            \* SpecThreads: each thread's locals (saw_none, self)
    n_process,     \* SpecThreads history: runs of _process_market_share
    gens,          \* the UserAgentGenerator instances constructed, by index
    calls,         \* history: the generate calls that ended, and how
    gpc,           \* SpecGenThreads: where each thread is in its generate call
    gl,            \* SpecGenThreads: each thread's locals (session, session_rand)
    expand_arg,    \* SpecExpand: the arguments of generate_full_version
    expanded,      \* SpecExpand: NoCall, or what generate_full_version gave
    seed_arg,      \* SpecSeed: the composer's seed and the session key
    sub_seed,      \* SpecSeed: NoCall, or what _session_to_seed gave
    call_arg,      \* the arguments of the function a specification applies once
    call_out       \* NoCall, or what that function gave

samplerVars == <<weights_arg, built, drawn>>
marketVars == <<market_arg, processed>>
loaderVars == <<files, cls_instance, objs, n_ctor, n_loads, returned, last>>
threadVars == <<pc, tl, n_process>>
genVars == <<gens, calls, gpc, gl>>
pureVars == <<expand_arg, expanded, seed_arg, sub_seed, call_arg, call_out>>
vars == <<weights_arg, built, drawn, market_arg, processed,
          files, cls_instance, objs, n_ctor, n_loads, returned, last,
          pc, tl, n_process, gens, calls, gpc, gl,
          expand_arg, expanded, seed_arg, sub_seed, call_arg, call_out>>

----------------------------------------------------------------------------
(* Bounds of the model. *)
MaxWeights == 3      \* longest weight vector handed to the sampler
MaxWeight == 2       \* largest single weight
MaxEntries == 2      \* most version entries under one market-share key
MaxCtor == 3         \* DataLoader() calls in one run of the sequential program
NThreads == 2        \* threads racing to construct the catalog
RngMod == 7          \* values one draw of a random stream can take
MaxGens == 2         \* generators constructed in one run
MaxCalls == 2        \* generate calls in one run
MaxParse == 200      \* largest number written as a decimal string
MaxPool == 2         \* most full versions in one historical pool
MaxKey == 2          \* longest session key folded into a sub-seed
MaxPos == 2          \* most values already drawn from a stream handed to a call

----------------------------------------------------------------------------
(* Helpers. *)
NotBuilt == [err |-> "unbuilt"]
\* a pure function that has not been applied
NoCall == [err |-> "uncalled"]
NoDraw == [err |-> "undrawn"]
NotProcessed == [err |-> "unprocessed"]
Range(s) == {s[i] : i \in DOMAIN s}

RECURSIVE SeqSum(_)
SeqSum(s) == IF s = <<>> THEN 0 ELSE s[1] + SeqSum(Tail(s))

RECURSIVE SelectIdx(_, _, _)
\* the 0-based indices i >= from of the sequence s with Test(i), in order
SelectIdx(s, keep, from) ==
    IF from > Len(s) THEN <<>>
    ELSE (IF keep[from] THEN <<from - 1>> ELSE <<>>) \o SelectIdx(s, keep, from + 1)

Pop(s) == SubSeq(s, 1, Len(s) - 1)
Top(s) == s[Len(s)]

SeqsUpTo(S, n) == UNION {[1..k -> S] : k \in 0..n}

----------------------------------------------------------------------------
(* AliasSampler.__init__: Vose's alias table.                              *)

\* the mutant of Donated: the large entry is not debited
DonatedNoDebit(pg, pl, total) == pg + pl

\* `prob[g] = prob[g] + prob[l] - 1.0`, 1.0 being `total` in the scaled table
Donated(pg, pl, total) == pg + pl - total

RECURSIVE BuildAlias(_, _, _, _, _, _)
\* the pairing loop `while small and large` and the two clean-up loops
BuildAlias(prob, selfprob, alias, small, large, total) ==
    IF small # <<>> /\ large # <<>>
    THEN LET l == Top(small)
             g == Top(large)
             pg == Donated(prob[g], prob[l], total)
         IN BuildAlias([prob EXCEPT ![g] = pg],
                       [selfprob EXCEPT ![l] = prob[l]],
                       [alias EXCEPT ![l] = g],
                       IF pg < total THEN Append(Pop(small), g) ELSE Pop(small),
                       IF pg < total THEN Pop(large) ELSE Append(Pop(large), g),
                       total)
    ELSE [prob  |-> [i \in DOMAIN selfprob |->
                        IF i \in Range(small) \cup Range(large)
                        THEN total ELSE selfprob[i]],
          alias |-> alias]

\* the mutant of TotalRejected: `total < 0`
TotalRejectedStrict(total) == total < 0

\* `if total <= 0: raise ValueError`
TotalRejected(total) == total <= 0

AliasSampler(weights, rng) ==
    LET n == Len(weights)
        total == SeqSum(weights)
    IN  IF n = 0 THEN [err |-> "ValueError"]
        ELSE IF TotalRejected(total) THEN [err |-> "ValueError"]
        ELSE LET prob == [i \in 0..(n - 1) |-> weights[i + 1] * n]
                 isSmall == [k \in 1..n |-> prob[k - 1] < total]
                 isLarge == [k \in 1..n |-> ~isSmall[k]]
                 t == BuildAlias(prob,
                                 [i \in 0..(n - 1) |-> 0],
                                 [i \in 0..(n - 1) |-> 0],
                                 SelectIdx(weights, isSmall, 1),
                                 SelectIdx(weights, isLarge, 1),
                                 total)
             IN [err |-> "none", rng |-> rng, n |-> n, total |-> total,
                 prob |-> t.prob, alias |-> t.alias]

----------------------------------------------------------------------------
(* Python dictionaries are functions; `d.get(k, default)` is Get.          *)
EmptyDict == <<>>
Get(d, k, default) == IF k \in DOMAIN d THEN d[k] ELSE default

(* models/enums.py and data/mappings.py *)
CHROME == "chrome"
FIREFOX == "firefox"
SAFARI == "safari"
EDGE == "edge"
OPERA == "opera"
DESKTOP == "desktop"
MOBILE == "mobile"
WINDOWS == "windows"
MACOS == "macos"
LINUX == "linux"
ANDROID == "android"
IOS == "ios"
UNKNOWN == "unknown"
OSTypeValues == {WINDOWS, MACOS, LINUX, ANDROID, IOS, "cros", UNKNOWN}

MARKET_KEY_MAP ==
    [and_chr |-> <<CHROME, MOBILE, ANDROID>>,
     and_ff  |-> <<FIREFOX, MOBILE, ANDROID>>,
     android |-> <<CHROME, MOBILE, ANDROID>>,
     chrome  |-> <<CHROME, DESKTOP, UNKNOWN>>,
     edge    |-> <<EDGE, DESKTOP, UNKNOWN>>,
     firefox |-> <<FIREFOX, DESKTOP, UNKNOWN>>,
     ios_saf |-> <<SAFARI, MOBILE, IOS>>,
     op_mob  |-> <<OPERA, MOBILE, ANDROID>>,
     opera   |-> <<OPERA, DESKTOP, UNKNOWN>>,
     safari  |-> <<SAFARI, DESKTOP, MACOS>>]

----------------------------------------------------------------------------
(* DataLoader (data/loader.py).  market_raw is the JSON object in file     *)
(* order: a sequence of <<key, entries>>; an entry is a dictionary with    *)
(* "version" and, optionally, "global_share".                              *)

BrowserCandidate(family, version, device_type, os_restriction, share) ==
    [family |-> family, version |-> version, device_type |-> device_type,
     os_restriction |-> os_restriction, share |-> share]

\* the mutant of ShareDropped: `share < 0`
ShareDroppedStrict(share) == share < 0

\* `if share <= 0: continue`
ShareDropped(share) == share <= 0

RECURSIVE EntryCandidates(_, _)
\* the inner loop `for entry in versions` for one recognized key
EntryCandidates(key, versions) ==
    IF versions = <<>> THEN <<>>
    ELSE LET entry == Head(versions)
             share == Get(entry, "global_share", 0)
             m == MARKET_KEY_MAP[key]
         IN (IF ShareDropped(share) THEN <<>>
             ELSE <<BrowserCandidate(m[1], Get(entry, "version", <<"None">>),
                                     m[2], m[3], share)>>)
            \o EntryCandidates(key, Tail(versions))

RECURSIVE FlattenMarket(_)
\* the outer loop `for key, versions in self.market_raw.items()`
FlattenMarket(market_raw) ==
    IF market_raw = <<>> THEN <<>>
    ELSE LET key == Head(market_raw)[1]
             versions == Head(market_raw)[2]
         IN (IF key \notin DOMAIN MARKET_KEY_MAP THEN <<>>
             ELSE EntryCandidates(key, versions))
            \o FlattenMarket(Tail(market_raw))

\* _process_market_share: candidates and weights are assigned before the
\* emptiness check raises
ProcessMarketShare(market_raw) ==
    LET candidates == FlattenMarket(market_raw)
        weights == [i \in 1..Len(candidates) |-> candidates[i].share]
    IN [candidates |-> candidates, weights |-> weights,
        err |-> IF candidates = <<>> THEN "DataLoadError" ELSE "none"]

\* _load_data: the three required files, then the four optional ones; a
\* missing required file or any corrupt file raises DataLoadError and leaves
\* the containers read so far assigned
Readable(f) == f.st = "ok"
OptionalData(f) == IF f.st = "missing" THEN EmptyDict ELSE f.data

LoadData(self, fs) ==
    IF ~Readable(fs.market_share) THEN [self |-> self, err |-> "DataLoadError"]
    ELSE LET s1 == [self EXCEPT !.market_raw = fs.market_share.data] IN
    IF ~Readable(fs.os_distribution) THEN [self |-> s1, err |-> "DataLoadError"]
    ELSE LET s2 == [s1 EXCEPT !.os_dist_raw = fs.os_distribution.data] IN
    IF ~Readable(fs.device_models) THEN [self |-> s2, err |-> "DataLoadError"]
    ELSE LET s3 == [s2 EXCEPT !.device_models_raw = fs.device_models.data] IN
    IF fs.chrome_versions.st = "corrupt" THEN [self |-> s3, err |-> "DataLoadError"]
    ELSE LET s4 == [s3 EXCEPT !.chrome_versions_raw = OptionalData(fs.chrome_versions)] IN
    IF fs.edge_versions.st = "corrupt" THEN [self |-> s4, err |-> "DataLoadError"]
    ELSE LET s5 == [s4 EXCEPT !.edge_versions_raw = OptionalData(fs.edge_versions)] IN
    IF fs.opera_versions.st = "corrupt" THEN [self |-> s5, err |-> "DataLoadError"]
    ELSE LET s6 == [s5 EXCEPT !.opera_versions_raw = OptionalData(fs.opera_versions)] IN
    IF fs.chromium_versions.st = "corrupt" THEN [self |-> s6, err |-> "DataLoadError"]
    ELSE [self |-> [s6 EXCEPT !.chromium_versions_raw =
                                  OptionalData(fs.chromium_versions)],
          err |-> "none"]

\* an instance as __new__ leaves it: no instance attribute yet, so
\* self._loaded reads the class attribute False (the containers are shown
\* empty; nothing returns the instance before __init__ has assigned them)
NewInstance ==
    [_loaded |-> FALSE,
     market_raw |-> <<>>, os_dist_raw |-> EmptyDict, device_models_raw |-> EmptyDict,
     chrome_versions_raw |-> EmptyDict, edge_versions_raw |-> EmptyDict,
     opera_versions_raw |-> EmptyDict, chromium_versions_raw |-> EmptyDict,
     candidates |-> <<>>, weights |-> <<>>,
     _os_weight_cache |-> EmptyDict, _os_alias_samplers |-> EmptyDict]

\* __init__ lines 37-49: the containers are reset to empty
ResetContainers(self) ==
    [self EXCEPT !.market_raw = <<>>, !.os_dist_raw = EmptyDict,
                 !.device_models_raw = EmptyDict,
                 !.chrome_versions_raw = EmptyDict, !.edge_versions_raw = EmptyDict,
                 !.opera_versions_raw = EmptyDict, !.chromium_versions_raw = EmptyDict,
                 !.candidates = <<>>, !.weights = <<>>]

\* _process_market_share on the instance
ProcessOn(self) ==
    LET r == ProcessMarketShare(self.market_raw)
    IN [self |-> [self EXCEPT !.candidates = r.candidates, !.weights = r.weights],
        err |-> r.err]

\* __init__ lines 57-66: the per-scope OS weight caches
OsWeightCache(os_dist_raw) ==
    [scope \in {"mobile_weights", "desktop_weights"} |->
        LET d == Get(os_dist_raw, scope, EmptyDict)
        IN [key \in DOMAIN d |->
               <<d[key], [i \in 1..Len(d[key]) |-> Get(d[key][i], "weight", 0)]>>]]

OsAliasSamplers(cache) ==
    [scope \in DOMAIN cache |->
        [key \in {k \in DOMAIN cache[scope] : cache[scope][k][2] # <<>>} |->
            cache[scope][key][2]]]

BuildOsCaches(self) ==
    LET c == OsWeightCache(self.os_dist_raw)
    IN [self EXCEPT !._os_weight_cache = c, !._os_alias_samplers = OsAliasSamplers(c)]

\* the mutant of SkipsLoad: __init__ without the `if not self._loaded` guard
SkipsLoadNever(self) == FALSE

\* `if not self._loaded:` is false
SkipsLoad(self) == self._loaded

\* the mutant of DataLoaderInit: `self._loaded = True` moved to the top of
\* the guarded block, before the load
DataLoaderInitFlagFirst(self, fs) ==
    IF SkipsLoad(self) THEN [self |-> self, err |-> "none", loads |-> 0]
    ELSE LET a == LoadData(ResetContainers([self EXCEPT !._loaded = TRUE]), fs) IN
         IF a.err # "none" THEN [self |-> a.self, err |-> a.err, loads |-> 1]
         ELSE LET b == ProcessOn(a.self) IN
              IF b.err # "none" THEN [self |-> b.self, err |-> b.err, loads |-> 1]
              ELSE [self |-> BuildOsCaches(b.self), err |-> "none", loads |-> 1]

\* DataLoader.__init__ run to its end, or to the exception that leaves it:
\* the instance afterwards, the error, and whether _load_data ran
DataLoaderInit(self, fs) ==
    IF SkipsLoad(self) THEN [self |-> self, err |-> "none", loads |-> 0]
    ELSE LET a == LoadData(ResetContainers(self), fs) IN
         IF a.err # "none" THEN [self |-> a.self, err |-> a.err, loads |-> 1]
         ELSE LET b == ProcessOn(a.self) IN
              IF b.err # "none" THEN [self |-> b.self, err |-> b.err, loads |-> 1]
              ELSE [self |-> [BuildOsCaches(b.self) EXCEPT !._loaded = TRUE],
                    err |-> "none", loads |-> 1]

\* the catalog of an instance: every field generation reads
Catalog(self) ==
    <<self.candidates, self.weights, self.os_dist_raw, self.device_models_raw,
      self.chrome_versions_raw, self.edge_versions_raw, self.opera_versions_raw,
      self.chromium_versions_raw, self._os_weight_cache, self._os_alias_samplers>>

\* the queries of the loader
get_device_models(self, category_key) == Get(self.device_models_raw, category_key, <<>>)
get_os_choices_and_weights(self, family_key, scope) ==
    Get(Get(self._os_weight_cache, scope, EmptyDict), family_key, <<<<>>, <<>>>>)
get_os_template(self, os_key) ==
    Get(Get(self.os_dist_raw, "os_templates", EmptyDict), os_key, <<>>)
VersionsOf(raw, major_version, platform) ==
    Get(Get(Get(raw, platform, EmptyDict), "by_major_version", EmptyDict),
        major_version, <<>>)
get_chrome_versions(self, major_version, platform) ==
    VersionsOf(self.chrome_versions_raw, major_version, platform)
get_edge_versions(self, major_version, platform) ==
    VersionsOf(self.edge_versions_raw, major_version, platform)
get_opera_versions(self, major_version, platform) ==
    VersionsOf(self.opera_versions_raw, major_version, platform)

----------------------------------------------------------------------------
(* random.Random: a stream is its seed and the number of values drawn so   *)
(* far; the value of a draw is a function of the two, and RngMod is the    *)
(* number of values a draw can take.  One randrange, random, choice or     *)
(* randint call is one draw.  A call site names its stream: "self" is the  *)
(* composer's self.rand, "local" the throwaway stream of a keyed call.     *)

Random(seed) == [seed |-> seed, pos |-> 0]
Word(st) == (((st.seed % RngMod) + 1) * (st.pos + 3) + st.pos * st.pos) % RngMod
Advance(rs, which) == [rs EXCEPT ![which].pos = @ + 1]

randrange(rs, which, n) == [val |-> Word(rs[which]) % n, rs |-> Advance(rs, which)]
\* rand.random() < num / den
random_lt(rs, which, num, den) ==
    [val |-> Word(rs[which]) * den < num * RngMod, rs |-> Advance(rs, which)]
choice(rs, which, seq) ==
    [val |-> seq[(Word(rs[which]) % Len(seq)) + 1], rs |-> Advance(rs, which)]
randint(rs, which, a, b) ==
    [val |-> a + (Word(rs[which]) % (b - a + 1)), rs |-> Advance(rs, which)]

(* AliasSampler.sample: the die and the coin come from self.rng, the       *)
(* stream the sampler was constructed with.                                *)
\* the mutant of Land: the coin read the other way round
LandInverted(self, i, coin) ==
    [val |-> IF coin.val THEN self.alias[i] ELSE i, rs |-> coin.rs]
\* the mutant of Land: `return i + 1`
LandOneBased(self, i, coin) ==
    [val |-> IF coin.val THEN i + 1 ELSE self.alias[i], rs |-> coin.rs]
\* line 83-84: the coin decides between column i and its alias
Land(self, i, coin) == [val |-> IF coin.val THEN i ELSE self.alias[i], rs |-> coin.rs]
\* line 83: the coin, after the die gave column die.val
Flip(self, die) ==
    Land(self, die.val,
         random_lt(die.rs, self.rng, self.prob[die.val], self.total))
sample(self, rs) == Flip(self, randrange(rs, self.rng, self.n))

\* the mutant of SampleKeywords: `def sample(self, rand=None)` over the same
\* body
SampleKeywordsWithRand == {"rand"}

\* `def sample(self) -> int`: the keyword arguments a call may pass
SampleKeywords == {}

\* a call sampler.sample(**kwargs): Python binds the arguments first and
\* raises TypeError for a keyword the signature does not have
CallSample(self, kwargs, rs) ==
    IF kwargs \subseteq SampleKeywords
    THEN [err |-> "none"] @@ sample(self, rs)
    ELSE [err |-> "TypeError", val |-> 0, rs |-> rs]

----------------------------------------------------------------------------
(* UserAgentGenerator.__init__ (core/generator.py).                        *)

\* the key of the OS distribution a candidate draws from (written out twice
\* in the code: __init__ lines 27-43 and _resolve_os lines 143-160)
OsCacheKey(candidate) ==
    IF candidate.device_type = MOBILE
    THEN <<(IF candidate.family = CHROME THEN "and_chr"
            ELSE IF candidate.family = FIREFOX THEN "and_ff"
            ELSE IF candidate.family = SAFARI THEN "ios_saf"
            ELSE IF candidate.family = OPERA THEN "op_mob"
            ELSE "android"), "mobile_weights">>
    ELSE <<candidate.family, "desktop_weights">>

\* lines 19-23: one sampler per non-empty template list
OsTemplateSamplers(loader) ==
    LET templates == Get(loader.os_dist_raw, "os_templates", EmptyDict)
    IN [os_key \in {k \in DOMAIN templates : templates[k] # <<>>} |->
           AliasSampler([i \in 1..Len(templates[os_key]) |->
                            Get(templates[os_key][i], "probability", 1)], "self")]

\* lines 25-50: one sampler and choice list per OS distribution in use
OsChoiceCache(loader) ==
    LET keys == {OsCacheKey(loader.candidates[i]) : i \in 1..Len(loader.candidates)}
        cw(k) == get_os_choices_and_weights(loader, k[1], k[2])
    IN [k \in {x \in keys : cw(x)[1] # <<>> /\ cw(x)[2] # <<>>} |->
           [sampler |-> AliasSampler(cw(k)[2], "self"), choices |-> cw(k)[1]]]

DeviceModelCache(loader) ==
    [cat \in {"samsung", "google_pixel", "oppo_realme_generic", "xiaomi_ecosystem"} |->
        get_device_models(loader, cat)]

UaMetadata(loader) ==
    [i \in 1..Len(loader.candidates) |->
        [family |-> loader.candidates[i].family,
         device |-> loader.candidates[i].device_type,
         version |-> loader.candidates[i].version]]

\* seed = NoSeed is `seed=None`: the base seed is 0 and random.Random(None)
\* seeds the stream from the operating system (entropy)
NoSeed == 0 - 1
\* the generator over the samplers its constructor built
BuiltGenerator(seed, entropy, loader, loader_id, cs, ts, oc) ==
    IF \/ cs.err # "none"
       \/ \E k \in DOMAIN ts : ts[k].err # "none"
       \/ \E k \in DOMAIN oc : oc[k].sampler.err # "none"
    THEN [err |-> "ValueError"]
    ELSE [err |-> "none",
          seed |-> IF seed # NoSeed THEN seed ELSE 0,
          loader |-> loader_id,
          rand |-> Random(IF seed # NoSeed THEN seed ELSE entropy),
          candidate_sampler |-> cs,
          _os_template_samplers |-> ts,
          _os_choice_cache |-> oc,
          _device_model_cache |-> DeviceModelCache(loader),
          _ua_metadata |-> UaMetadata(loader)]
UserAgentGenerator(seed, entropy, loader, loader_id) ==
    BuiltGenerator(seed, entropy, loader, loader_id,
                   AliasSampler(loader.weights, "self"),
                   OsTemplateSamplers(loader), OsChoiceCache(loader))

----------------------------------------------------------------------------
(* Strings.  A version is the sequence of its dot-separated components, a  *)
(* session key the sequence of its characters, a user-agent string the     *)
(* sequence of its pieces.                                                 *)

\* int(s): the number a decimal string denotes, ValueError for any other
int(s) ==
    IF \E n \in 0..MaxParse : ToString(n) = s
    THEN [err |-> "none", val |-> CHOOSE n \in 0..MaxParse : ToString(n) = s]
    ELSE [err |-> "ValueError", val |-> 0]
str(n) == ToString(n)

\* ".".join(version) as pieces
RECURSIVE Dotted(_)
Dotted(version) ==
    IF Len(version) <= 1 THEN version
    ELSE <<version[1], ".">> \o Dotted(Tail(version))
\* version.replace('.', '_') as pieces
RECURSIVE Underscored(_)
Underscored(version) ==
    IF Len(version) <= 1 THEN version
    ELSE <<version[1], "_">> \o Underscored(Tail(version))
\* os_token.replace("{version}", by)
RECURSIVE ReplaceVersion(_, _)
ReplaceVersion(token, by) ==
    IF token = <<>> THEN <<>>
    ELSE (IF Head(token) = "{version}" THEN by ELSE <<Head(token)>>)
         \o ReplaceVersion(Tail(token), by)

NoSession == [is_none |-> TRUE, chars |-> <<>>]
Session(chars) == [is_none |-> FALSE, chars |-> chars]
ord == [a |-> 97, b |-> 98]

\* 0x7FFFFFFF
MASK == 2147483647
\* Arithmetic modulo top + 1 by additions that never leave 0..top.
\* x + y modulo top + 1, for x and y in 0..top
AddMod(x, y, top) == IF x > top - y THEN x - (top - y) - 1 ELSE x + y
\* h modulo top + 1, for h from -(top + 1) to 2 * top + 1
Residue(h, top) ==
    IF h > top THEN h - top - 1 ELSE IF h < 0 THEN (h + 1) + top ELSE h
\* 31 * x modulo top + 1, for x in 0..top: 32 * x by five doublings, less x
Times31Mod(x, top) ==
    LET x2 == AddMod(x, x, top)
        x4 == AddMod(x2, x2, top)
        x8 == AddMod(x4, x4, top)
        x16 == AddMod(x8, x8, top)
        x32 == AddMod(x16, x16, top)
    IN AddMod(x32, Residue(0 - x, top), top)
\* (h * 31 + o) modulo top + 1
StepMod(h, o, top) ==
    AddMod(Times31Mod(Residue(h, top), top), Residue(o, top), top)
RECURSIVE FoldMod(_, _, _)
\* the fold h_0 = h, h_{k+1} = (h_k * 31 + ord(c_k)) modulo top + 1
FoldMod(h, chars, top) ==
    IF chars = <<>> THEN h
    ELSE FoldMod(StepMod(h, ord[Head(chars)], top), Tail(chars), top)

\* the mutant of FoldStep: the step modulo 2^31 - 1
FoldStepMersenne(h, o) == StepMod(h, o, MASK - 1)

\* (h * 31 + o) & 0x7FFFFFFF for 0 <= h <= MASK, computed on the two 16-bit
\* halves of h so that no intermediate value exceeds MASK
FoldStep(h, o) ==
    LET a == h \div 65536
        b == h % 65536
        t1 == ((a * 31) % 32768) * 65536
        t2 == b * 31 + o
    IN IF t1 > MASK - t2 THEN t1 - (MASK - t2) - 1 ELSE t1 + t2

RECURSIVE FoldSession(_, _)
\* the loop of _session_to_seed: h = (h * 31 + ord(char)) & 0x7FFFFFFF
FoldSession(h, chars) ==
    IF chars = <<>> THEN h
    ELSE FoldSession(FoldStep(h, ord[Head(chars)]), Tail(chars))
\* UserAgentGenerator._session_to_seed; NoSeed is the None it returns for
\* `session is None`
_session_to_seed(self, session) ==
    IF session.is_none THEN NoSeed ELSE FoldSession(self.seed, session.chars)

----------------------------------------------------------------------------
(* UserAgentGenerator.generate and what it calls.  Every stage gives       *)
(* [err, ..., rs]: the exception that left it, if any, and the streams.    *)

_map_os_to_platform(os_type) ==
    IF os_type = WINDOWS THEN "windows"
    ELSE IF os_type \in {MACOS, IOS} THEN "macos"
    ELSE "linux"

OsFallback(rs) ==
    [err |-> "none", type |-> LINUX, platform_header |-> "Linux",
     ua_token |-> <<"X11; Linux x86_64">>, platform_version |-> <<"5", "0", "0">>,
     rs |-> rs]

\* _resolve_os lines 201-206: the dictionary it returns
OsData(selected_os_config, ua_token, pv, rs) ==
    [err |-> "none",
     type |-> IF selected_os_config.os \in OSTypeValues THEN selected_os_config.os
              ELSE UNKNOWN,
     platform_header |-> selected_os_config.platform,
     ua_token |-> ua_token, platform_version |-> pv, rs |-> rs]

\* lines 197-200: a platform version of two draws
TwoDraws(selected_os_config, ua_token, a, b) ==
    OsData(selected_os_config, ua_token, <<str(a.val), str(b.val), "0">>, b.rs)
DrawMinor(selected_os_config, ua_token, which, a, lo, hi) ==
    TwoDraws(selected_os_config, ua_token, a, randint(a.rs, which, lo, hi))

\* lines 191-201, with the template that was picked
FromTemplate(selected_os_config, which, pick) ==
    IF pick.err # "none" THEN [err |-> pick.err, rs |-> pick.rs]
    ELSE IF "platform_version" \in DOMAIN pick.val
    THEN OsData(selected_os_config, pick.val.ua_token, pick.val.platform_version,
                pick.rs)
    ELSE IF selected_os_config.os = "ios"
    THEN DrawMinor(selected_os_config, pick.val.ua_token, which,
                   randint(pick.rs, which, 16, 17), 0, 5)
    ELSE IF selected_os_config.os = "linux"
    THEN DrawMinor(selected_os_config, pick.val.ua_token, which,
                   randint(pick.rs, which, 5, 6), 4, 19)
    ELSE OsData(selected_os_config, pick.val.ua_token, <<"1", "0", "0">>, pick.rs)

\* line 187: templates[template_sampler.sample(rand=rand)]
SampledTemplate(templates, c) ==
    [err |-> c.err, rs |-> c.rs,
     val |-> IF c.err = "none" THEN templates[c.val + 1] ELSE templates[1]]

\* lines 185-189: the template, by the OS's sampler or by rand.choice
PickTemplate(self, os_key, templates, which, rs) ==
    IF os_key \in DOMAIN self._os_template_samplers
    THEN SampledTemplate(templates,
                         CallSample(self._os_template_samplers[os_key], {"rand"}, rs))
    ELSE [err |-> "none"] @@ choice(rs, which, templates)

\* lines 178-206, after the OS entry has been selected
ResolveTemplate(self, selected_os_config, templates, which, rs) ==
    IF templates = <<>>
    THEN OsData(selected_os_config, <<"Unknown OS">>, <<"0", "0", "0">>, rs)
    ELSE FromTemplate(selected_os_config, which,
                      PickTemplate(self, selected_os_config.os, templates, which, rs))

\* line 174: cached['choices'][cached['sampler'].sample(rand=rand)]
ResolveSelected(self, loader, cached, which, c) ==
    IF c.err # "none" THEN [err |-> c.err, rs |-> c.rs]
    ELSE ResolveTemplate(self, cached.choices[c.val + 1],
                         get_os_template(loader, cached.choices[c.val + 1].os),
                         which, c.rs)

_resolve_os(self, loader, candidate, which, rs) ==
    IF OsCacheKey(candidate) \notin DOMAIN self._os_choice_cache THEN OsFallback(rs)
    ELSE ResolveSelected(self, loader, self._os_choice_cache[OsCacheKey(candidate)],
                         which,
                         CallSample(self._os_choice_cache[OsCacheKey(candidate)].sampler,
                                    {"rand"}, rs))

\* Python's None where a platform name is expected, and where a loader is
NoPlatform == "None"
NoLoader == [is_none |-> TRUE]

\* `f"{major_version}.0.0.0"`
Synthesized(major_version) == <<major_version, "0", "0", "0">>

\* `if versions: return rand.choice(versions)  else: <synthesized>`
PoolVersion(versions, major_version, which, rs) ==
    IF versions # <<>> THEN choice(rs, which, versions)
    ELSE [val |-> Synthesized(major_version), rs |-> rs]

\* `if platform is None: platform = "windows"`
PlatformOrDefault(platform) == IF platform = NoPlatform THEN "windows" ELSE platform

\* VersionExpander._get_chrome_version, _get_edge_version, _get_opera_version
_get_chrome_version(major_version, platform, which, rs, loader) ==
    IF loader = NoLoader THEN [val |-> Synthesized(major_version), rs |-> rs]
    ELSE PoolVersion(get_chrome_versions(loader, major_version,
                                         PlatformOrDefault(platform)),
                     major_version, which, rs)
_get_edge_version(major_version, platform, which, rs, loader) ==
    IF loader = NoLoader THEN [val |-> Synthesized(major_version), rs |-> rs]
    ELSE PoolVersion(get_edge_versions(loader, major_version,
                                       PlatformOrDefault(platform)),
                     major_version, which, rs)
_get_opera_version(major_version, platform, which, rs, loader) ==
    IF loader = NoLoader THEN [val |-> Synthesized(major_version), rs |-> rs]
    ELSE PoolVersion(get_opera_versions(loader, major_version,
                                        PlatformOrDefault(platform)),
                     major_version, which, rs)

\* the mutant of AlreadyFull: two components are not enough
AlreadyFullThree(version) == Len(version) > 2

\* `if "." in major_version: parts = major_version.split('.'); if len(parts) > 1`
AlreadyFull(version) == Len(version) > 1

\* VersionExpander.generate_full_version; `which` names the stream rand is
generate_full_version(family, version, which, rs, platform, loader) ==
    IF AlreadyFull(version) THEN [val |-> version, rs |-> rs]
    ELSE IF family = CHROME
    THEN _get_chrome_version(version[1], platform, which, rs, loader)
    ELSE IF family = EDGE
    THEN _get_edge_version(version[1], platform, which, rs, loader)
    ELSE IF family = OPERA
    THEN _get_opera_version(version[1], platform, which, rs, loader)
    ELSE IF family = FIREFOX THEN [val |-> <<version[1], "0">>, rs |-> rs]
    ELSE IF family = SAFARI THEN [val |-> version, rs |-> rs]
    ELSE [val |-> <<version[1], "0">>, rs |-> rs]

\* DataLoader.get_chromium_version_for_edge / _for_opera: a version or <<>>
\* (None)
ChromiumVersions(loader, major) ==
    Get(Get(loader.chromium_versions_raw, "by_major_version", EmptyDict), major, <<>>)
get_chromium_version_for_edge(loader, edge_major) ==
    IF ChromiumVersions(loader, edge_major) # <<>>
    THEN ChromiumVersions(loader, edge_major)[1] ELSE <<>>
get_chromium_version_for_opera(loader, opera_major) ==
    IF int(opera_major).err # "none" THEN <<>>
    ELSE LET chromium_major == str(int(opera_major).val + 16)
         IN IF ChromiumVersions(loader, chromium_major) # <<>>
            THEN ChromiumVersions(loader, chromium_major)[1] ELSE <<>>

\* the engine version the catalog resolves for an Edge or Opera version
ResolvedChromium(family, full_version, loader) ==
    IF family = EDGE THEN get_chromium_version_for_edge(loader, full_version[1])
    ELSE IF family = OPERA THEN get_chromium_version_for_opera(loader, full_version[1])
    ELSE <<>>

\* ClientHintsGenerator.get_major_chromium_full_version, lines 119-123
MajorOf(family, full_version, chromium_version) ==
    IF chromium_version # <<>> THEN int(chromium_version[1])
    ELSE IF family = CHROME THEN int(full_version[1])
    ELSE [err |-> "none", val |-> 0 - 1]
get_major_chromium_full_version(family, full_version, loader) ==
    MajorOf(family, full_version, ResolvedChromium(family, full_version, loader))

DeviceCategories == <<"samsung", "oppo_realme_generic", "xiaomi_ecosystem", "google_pixel">>

\* _resolve_hardware lines 236-244: the model ("" for None) out of a pool
ChosenModel(m) == [model |-> m.val, rs |-> m.rs]
FromModelList(model_list, which, rs) ==
    IF model_list = <<>> THEN [model |-> "Generic Android", rs |-> rs]
    ELSE ChosenModel(choice(rs, which, model_list))
\* lines 232-234: the pool of a category chosen at random
FromCategory(self, which, cat) ==
    FromModelList(Get(self._device_model_cache, cat.val, <<>>), which, cat.rs)
\* lines 229-234: `family == CHROME and rand.random() < 0.3`
AfterPixelCoin(self, which, pixel) ==
    IF pixel.val
    THEN FromModelList(Get(self._device_model_cache, "google_pixel", <<>>),
                       which, pixel.rs)
    ELSE FromCategory(self, which, choice(pixel.rs, which, DeviceCategories))

_resolve_hardware(self, device_type, family, which, rs) ==
    IF device_type = DESKTOP THEN [model |-> "", rs |-> rs]
    ELSE IF family = SAFARI THEN [model |-> "iPhone", rs |-> rs]
    ELSE IF family = CHROME
    THEN AfterPixelCoin(self, which, random_lt(rs, which, 3, 10))
    ELSE FromCategory(self, which, choice(rs, which, DeviceCategories))

\* generate lines 318-331: the OS token, frozen for Chromium 110 and later
OsToken(candidate, os_data, model, chromium_version) ==
    IF candidate.device_type = MOBILE /\ os_data.type = ANDROID
    THEN IF /\ model # ""
            /\ candidate.family \in {CHROME, EDGE, OPERA}
            /\ chromium_version >= 110
         THEN <<"Linux; Android 10; K">>
         ELSE IF model # "" THEN os_data.ua_token \o <<"; ", model>>
         ELSE os_data.ua_token
    ELSE os_data.ua_token

_build_ua_string(family, device, os_token, full_version, marketing_version) ==
    IF family = CHROME
    THEN [err |-> "none",
          val |-> <<"Mozilla/5.0 (">> \o os_token
                  \o <<") AppleWebKit/537.36 (KHTML, like Gecko) ", "Chrome/">>
                  \o Dotted(full_version) \o <<" ">>
                  \o (IF device = MOBILE THEN <<"Mobile ">> ELSE <<>>)
                  \o <<"Safari/537.36">>]
    ELSE IF family = EDGE
    THEN [err |-> "none",
          val |-> <<"Mozilla/5.0 (">> \o os_token
                  \o <<") AppleWebKit/537.36 (KHTML, like Gecko) ", "Chrome/">>
                  \o Dotted(full_version) \o <<" Safari/537.36 ", "Edg/">>
                  \o Dotted(full_version)]
    ELSE IF family = FIREFOX
    THEN [err |-> "none",
          val |-> <<"Mozilla/5.0 (">> \o os_token \o <<"; rv:">>
                  \o Dotted(full_version) \o <<") Gecko/20100101 ", "Firefox/">>
                  \o Dotted(full_version)]
    ELSE IF family = SAFARI
    THEN [err |-> "none",
          val |-> <<"Mozilla/5.0 (">>
                  \o ReplaceVersion(os_token, Underscored(marketing_version))
                  \o <<") AppleWebKit/", "605.1.15", " (KHTML, like Gecko) ",
                       "Version/">>
                  \o Dotted(marketing_version)
                  \o <<" ", "Mobile/15E148", " Safari/", "605.1.15">>]
    ELSE IF family = OPERA
    THEN IF int(full_version[1]).err # "none" THEN [err |-> "ValueError", val |-> <<>>]
         ELSE [err |-> "none",
               val |-> <<"Mozilla/5.0 (">> \o os_token
                       \o <<") AppleWebKit/537.36 (KHTML, like Gecko) ", "Chrome/">>
                       \o Dotted(<<str(int(full_version[1]).val + 16), "0", "0", "0">>)
                       \o <<" Safari/537.36 ", "OPR/">> \o Dotted(full_version)]
    ELSE [err |-> "none",
          val |-> <<"Mozilla/5.0 (">> \o os_token
                  \o <<") AppleWebKit/537.36 (KHTML, like Gecko) ", "Chrome/">>
                  \o Dotted(full_version) \o <<" Safari/537.36">>]

\* a version that is one decimal number, as int(version) reads it
IntOfVersion(version) ==
    IF Len(version) = 1 THEN int(version[1]) ELSE [err |-> "ValueError", val |-> 0]

\* ClientHintsGenerator.PUNCT and the versions the decoy is given
PUNCT == <<";", ":", "(", ")", "_", " ">>
GreaseVersions == << <<"99">>, <<"8">>, <<"24">> >>
\* GREASE_BRAND with its two spaces replaced: "".join(name)
GreaseName(sep1, sep2) == "Not" \o sep1 \o "A" \o sep2 \o "Brand"

\* x[i], x[j] = x[j], x[i]  (i and j count from 0)
Swap(x, i, j) == [x EXCEPT ![i + 1] = x[j + 1], ![j + 1] = x[i + 1]]
RECURSIVE ShuffleFrom(_, _, _, _)
\* random.shuffle: for i from len(x) - 1 down to 1, j = randbelow(i + 1)
\* and x[i], x[j] are swapped
ShuffleStep(x, i, which, j) == ShuffleFrom(Swap(x, i, j.val), i - 1, which, j.rs)
ShuffleFrom(x, i, which, rs) ==
    IF i < 1 THEN [val |-> x, rs |-> rs]
    ELSE ShuffleStep(x, i, which, randrange(rs, which, i + 1))
shuffle(rs, which, x) == ShuffleFrom(x, Len(x) - 1, which, rs)

\* _get_brand_tuples lines 45-56: the brands after the decoy
RealBrands(family, version) ==
    IF family = CHROME
    THEN << <<"Chromium", version>>, <<"Google Chrome", version>> >>
    ELSE IF family = EDGE
    THEN << <<"Chromium", version>>, <<"Microsoft Edge", version>> >>
    ELSE IF family = OPERA
    THEN << <<"Chromium", version>>, <<"Opera", version>> >>
    ELSE << <<"Chromium", version>> >>
\* lines 41-59, the separators and the decoy's version being drawn
GreaseDrawn(family, version, which, sep1, sep2, grease_version) ==
    shuffle(grease_version.rs, which,
            << <<GreaseName(sep1.val, sep2.val), grease_version.val>> >>
                \o RealBrands(family, version))
GreaseSeparated(family, version, which, sep1, sep2) ==
    GreaseDrawn(family, version, which, sep1, sep2,
                choice(sep2.rs, which, GreaseVersions))
GreaseFirst(family, version, which, sep1) ==
    GreaseSeparated(family, version, which, sep1, choice(sep1.rs, which, PUNCT))
\* ClientHintsGenerator._get_brand_tuples: the randomized brand tuples.
\* rand.choices(PUNCT, k=2) is two draws.
_get_brand_tuples(family, version, which, rs) ==
    GreaseFirst(family, version, which, choice(rs, which, PUNCT))

\* the mutant of generate_brands: the display brand is left out
GenerateBrandsEngineOnly(family, major_version) ==
    IF family \in {FIREFOX, SAFARI} THEN <<>>
    ELSE << <<"Not A Brand", <<"99">> >>, <<"Chromium", major_version>> >>

\* ClientHintsGenerator.generate_brands: the header as (brand, version) pairs,
\* <<>> for the empty string.  Its `rand` argument is not used and
\* _get_brand_tuples is not called.
generate_brands(family, major_version) ==
    IF family \in {FIREFOX, SAFARI} THEN <<>>
    ELSE LET chromium_major ==
                 IF family = OPERA /\ IntOfVersion(major_version).err = "none"
                 THEN <<str(IntOfVersion(major_version).val + 16)>>
                 ELSE major_version
             grease == <<"Not A Brand", <<"99">> >>
         IN IF family = CHROME
            THEN <<grease, <<"Chromium", major_version>>,
                   <<"Google Chrome", major_version>> >>
            ELSE IF family = EDGE
            THEN <<grease, <<"Chromium", chromium_major>>,
                   <<"Microsoft Edge", major_version>> >>
            ELSE IF family = OPERA
            THEN <<grease, <<"Chromium", chromium_major>>, <<"Opera", major_version>> >>
            ELSE <<grease, <<"Chromium", major_version>> >>

\* ClientHintsGenerator.generate_full_version_list lines 153-180, as (brand,
\* version) pairs
VersionList(family, full_version, chromium_version) ==
    LET grease == <<"Not A Brand", <<"99", "0", "0", "0">> >>
        ok(list) == [err |-> "none", val |-> list]
    IN IF family = CHROME
       THEN ok(<<grease, <<"Chromium", full_version>>,
                 <<"Google Chrome", full_version>> >>)
       ELSE IF family = EDGE
       THEN ok(<<grease,
                 <<"Chromium", IF chromium_version # <<>> THEN chromium_version
                               ELSE full_version>>,
                 <<"Microsoft Edge", full_version>> >>)
       ELSE IF family = OPERA
       THEN IF chromium_version # <<>>
            THEN ok(<<grease, <<"Chromium", chromium_version>>,
                      <<"Opera", full_version>> >>)
            ELSE IF int(full_version[1]).err # "none"
            THEN [err |-> "ValueError", val |-> <<>>]
            ELSE ok(<<grease,
                      <<"Chromium", <<str(int(full_version[1]).val + 16),
                                      "0", "0", "0">> >>,
                      <<"Opera", full_version>> >>)
       ELSE ok(<<grease, <<"Chromium", full_version>> >>)
generate_full_version_list(family, full_version, loader) ==
    IF family \in {FIREFOX, SAFARI} THEN [err |-> "none", val |-> <<>>]
    ELSE VersionList(family, full_version,
                     ResolvedChromium(family, full_version, loader))

\* ClientHintsGenerator.generate_full_version (the Sec-CH-UA-Full-Version hint)
generate_full_version_hint(family, full_version) ==
    IF family \in {FIREFOX, SAFARI} THEN <<>> ELSE full_version
get_mobile_token(is_mobile) == IF is_mobile THEN "?1" ELSE "?0"
generate_form_factors(device_type) ==
    IF device_type = DESKTOP THEN "Desktop"
    ELSE IF device_type = "tablet" THEN "Tablet"
    ELSE "Mobile"
get_wow64_token(is_wow64) == IF is_wow64 THEN "?1" ELSE "?0"
get_prefers_color_scheme(rs, which) == choice(rs, which, <<"light", "dark">>)

\* the fields of the UserAgentData dataclass (models/objects.py)
UserAgentDataFields ==
    {"user_agent", "meta_os", "meta_browser", "meta_device", "ch_brands",
     "ch_full_version_list", "ch_mobile", "ch_platform", "ch_platform_version",
     "ch_model", "ch_arch", "ch_bitness"}

\* what a call that raised gives back in place of a record
NoRecord == [user_agent |-> <<>>]
Raised(err, rs) == [err |-> err, val |-> NoRecord, rs |-> rs]

\* UserAgentData(**kwargs): the generated dataclass __init__ raises TypeError
\* for a keyword that is not one of its fields
UserAgentData(kwargs, rs) ==
    IF DOMAIN kwargs \subseteq UserAgentDataFields
    THEN [err |-> "none", val |-> kwargs, rs |-> rs]
    ELSE Raised("TypeError", rs)

\* the mutant of Quoted: the token as it is
Unquoted(token) == token

\* f'"{token}"'
Quoted(token) == "\"" \o token \o "\""

\* `if value: headers[key] = rendered`, as the dictionary of that one entry
\* or of none; `empty` is the empty value of the field's type
Header(key, value, empty, rendered) ==
    IF value # empty THEN key :> rendered ELSE EmptyDict

\* the four entries get_headers and get_all_client_hints both add
CommonHints(self) ==
    Header("Sec-CH-UA", self.ch_brands, <<>>, self.ch_brands)
        @@ Header("Sec-CH-UA-Mobile", self.ch_mobile, "", self.ch_mobile)
        @@ Header("Sec-CH-UA-Platform", self.ch_platform, "", Quoted(self.ch_platform))
        @@ Header("Sec-CH-UA-Full-Version-List", self.ch_full_version_list, <<>>,
                  self.ch_full_version_list)

\* UserAgentData.get_headers: the header map it returns
get_headers(self) == ("User-Agent" :> self.user_agent) @@ CommonHints(self)

\* UserAgentData.get_all_client_hints
get_all_client_hints(self) ==
    CommonHints(self)
        @@ Header("Sec-CH-UA-Platform-Version", self.ch_platform_version, <<>>,
                  self.ch_platform_version)
        @@ Header("Sec-CH-UA-Model", self.ch_model, "", Quoted(self.ch_model))
        @@ Header("Sec-CH-UA-Arch", self.ch_arch, "", Quoted(self.ch_arch))
        @@ Header("Sec-CH-UA-Bitness", self.ch_bitness, "", Quoted(self.ch_bitness))

\* generate lines 363-396: the record of a browser that sends client hints
HintedRecord(candidate, os_data, model, ua_string, brands, ch_full, ch_full_version, scheme) ==
    UserAgentData(
        [user_agent |-> ua_string, ch_brands |-> brands,
         ch_full_version_list |-> ch_full,
         ch_mobile |-> get_mobile_token(candidate.device_type = MOBILE),
         ch_platform |-> os_data.platform_header,
         ch_platform_version |-> os_data.platform_version,
         ch_model |-> IF candidate.device_type = MOBILE THEN model ELSE "",
         ch_arch |-> IF candidate.device_type = MOBILE THEN "arm" ELSE "x86",
         ch_bitness |-> "64",
         ch_full_version |-> ch_full_version,
         ch_form_factors |-> generate_form_factors(candidate.device_type),
         ch_wow64 |-> get_wow64_token(FALSE),
         ch_prefers_color_scheme |-> scheme.val,
         meta_os |-> os_data.type, meta_browser |-> candidate.family,
         meta_device |-> candidate.device_type], scheme.rs)

\* generate lines 349-396: the client hints, then the record
BuildRecord(candidate, os_data, model, ua_string, brands, ch_full, ch_full_version, which, rs) ==
    IF brands = <<>>
    THEN UserAgentData(
            [user_agent |-> ua_string, ch_brands |-> brands,
             ch_full_version_list |-> <<>>, ch_mobile |-> "", ch_platform |-> "",
             ch_platform_version |-> <<>>, ch_model |-> "", ch_arch |-> "",
             ch_bitness |-> "", ch_full_version |-> <<>>, ch_form_factors |-> "",
             ch_wow64 |-> "", ch_prefers_color_scheme |-> "",
             meta_os |-> os_data.type, meta_browser |-> candidate.family,
             meta_device |-> candidate.device_type], rs)
    ELSE HintedRecord(candidate, os_data, model, ua_string, brands, ch_full,
                      ch_full_version, get_prefers_color_scheme(rs, which))

\* generate lines 332-396, with the legacy string and the version list
GenerateWithStrings(candidate, os_data, full_version, hw_info, which, ua_string, full_version_list) ==
    IF ua_string.err # "none" THEN Raised(ua_string.err, hw_info.rs)
    ELSE IF full_version_list.err # "none"
    THEN Raised(full_version_list.err, hw_info.rs)
    ELSE BuildRecord(candidate, os_data, hw_info.model, ua_string.val,
                     generate_brands(candidate.family, candidate.version),
                     full_version_list.val,
                     generate_full_version_hint(candidate.family, full_version),
                     which, hw_info.rs)

\* generate lines 315-347, with the hardware
GenerateWithHardware(self, loader, idx, candidate, which, os_data, full_version, chromium_version, hw_info) ==
    GenerateWithStrings(candidate, os_data, full_version, hw_info, which,
        _build_ua_string(self._ua_metadata[idx + 1].family,
                         self._ua_metadata[idx + 1].device,
                         OsToken(candidate, os_data, hw_info.model, chromium_version),
                         <<full_version[1], "0", "0", "0">>,
                         self._ua_metadata[idx + 1].version),
        generate_full_version_list(candidate.family, full_version, loader))

\* generate lines 304-313, with the engine's major version
GenerateWithChromium(self, loader, idx, candidate, which, os_data, fv, chromium_version) ==
    IF chromium_version.err # "none" THEN Raised(chromium_version.err, fv.rs)
    ELSE GenerateWithHardware(self, loader, idx, candidate, which, os_data, fv.val,
             chromium_version.val,
             _resolve_hardware(self, candidate.device_type, candidate.family,
                               which, fv.rs))

\* generate lines 292-310, with the OS
GenerateWithOs(self, loader, idx, candidate, which, os_data, fv) ==
    GenerateWithChromium(self, loader, idx, candidate, which, os_data, fv,
        get_major_chromium_full_version(candidate.family, fv.val, loader))

\* generate lines 290-302, with what _resolve_os gave
GenerateResolved(self, loader, idx, candidate, which, os_data) ==
    IF os_data.err # "none" THEN Raised(os_data.err, os_data.rs)
    ELSE GenerateWithOs(self, loader, idx, candidate, which, os_data,
             generate_full_version(candidate.family, candidate.version, which,
                                   os_data.rs, _map_os_to_platform(os_data.type),
                                   loader))

\* generate lines 287-396, once a candidate index has been drawn
GenerateFrom(self, loader, idx, which, rs) ==
    GenerateResolved(self, loader, idx, loader.candidates[idx + 1], which,
                     _resolve_os(self, loader, loader.candidates[idx + 1], which, rs))

\* generate lines 279-283: the stream of this call ("self" is self.rand,
\* "local" the stream made for the session key)
SessionRand(self, session) == Random(_session_to_seed(self, session))
StreamOf(session) == IF session.is_none THEN "self" ELSE "local"

\* generate lines 285-396: the candidate draw and everything after it
AfterDraw(self, loader, which, idx) ==
    IF idx.err # "none" THEN Raised(idx.err, idx.rs)
    ELSE GenerateFrom(self, loader, idx.val, which, idx.rs)
GenerateBody(self, loader, which, rs) ==
    AfterDraw(self, loader, which, CallSample(self.candidate_sampler, {"rand"}, rs))

\* UserAgentGenerator.generate: [err, val, rs], rs.self being self.rand after
\* the call
generate(self, loader, session) ==
    GenerateBody(self, loader, StreamOf(session),
                 [self |-> self.rand,
                  local |-> IF session.is_none THEN Random(0)
                            ELSE SessionRand(self, session)])

----------------------------------------------------------------------------
(* The data files.  A version string is the sequence of its dot-separated  *)
(* components; a file is [st |-> "ok" | "missing" | "corrupt", data |-> _]. *)

File(data) == [st |-> "ok", data |-> data]
Missing == [st |-> "missing", data |-> EmptyDict]
Corrupt == [st |-> "corrupt", data |-> EmptyDict]

Entry(version, share) == [version |-> version, global_share |-> share]

MarketA ==
    << <<"chrome",  <<Entry(<<"120">>, 3), Entry(<<"109">>, 1), Entry(<<"100">>, 0)>> >>,
       <<"and_chr", <<Entry(<<"120">>, 2), Entry(<<"109">>, 1)>> >>,
       <<"zzz",     <<Entry(<<"1">>, 5)>> >>,
       <<"ios_saf", <<Entry(<<"17", "2">>, 1)>> >>,
       <<"firefox", <<Entry(<<"115">>, 1)>> >>,
       <<"op_mob",  <<Entry(<<"80">>, 1), Entry(<<"96">>, 1)>> >>,
       <<"edge",    <<Entry(<<"120">>, 1)>> >> >>
MarketB ==
    << <<"firefox", <<Entry(<<"115">>, 2)>> >>,
       <<"chrome",  <<Entry(<<"109">>, 1)>> >> >>
MarketZero ==
    << <<"chrome",  <<Entry(<<"120">>, 0), [version |-> <<"109">>]>> >>,
       <<"zzz",     <<Entry(<<"1">>, 5)>> >> >>

OsChoice(os, platform, weight) == [os |-> os, platform |-> platform, weight |-> weight]

OsDistA ==
    [desktop_weights |->
        [chrome  |-> <<OsChoice("windows", "Windows", 7), OsChoice("macos", "macOS", 2),
                       OsChoice("linux", "Linux", 1)>>,
         firefox |-> <<OsChoice("windows", "Windows", 1), OsChoice("linux", "Linux", 1)>>,
         edge    |-> <<OsChoice("windows", "Windows", 1)>>],
     mobile_weights |->
        [and_chr |-> <<OsChoice("android", "Android", 1)>>,
         ios_saf |-> <<OsChoice("ios", "iOS", 1)>>,
         op_mob  |-> <<OsChoice("android", "Android", 1)>>],
     os_templates |->
        [windows |-> <<[ua_token |-> <<"Windows NT 10.0; Win64; x64">>,
                        platform_version |-> <<"10", "0", "0">>, probability |-> 3],
                       [ua_token |-> <<"Windows NT 10.0; Win64; x64">>,
                        platform_version |-> <<"15", "0", "0">>, probability |-> 1]>>,
         macos   |-> <<[ua_token |-> <<"Macintosh; Intel Mac OS X 10_15_7">>,
                        platform_version |-> <<"14", "5", "0">>, probability |-> 1]>>,
         linux   |-> <<[ua_token |-> <<"X11; Linux x86_64">>, probability |-> 1]>>,
         android |-> <<[ua_token |-> <<"Linux; Android 13">>,
                        platform_version |-> <<"13", "0", "0">>, probability |-> 1]>>,
         ios     |-> <<[ua_token |-> <<"iPhone; CPU iPhone OS ", "{version}",
                                       " like Mac OS X">>, probability |-> 1]>>]]

DeviceModelsA ==
    [samsung |-> <<"SM-G991B", "SM-S918B">>,
     google_pixel |-> <<"Pixel 7">>,
     xiaomi_ecosystem |-> <<>>]

ChromeVersionsA ==
    [windows |-> [by_major_version |->
                    ("120" :> << <<"120", "0", "6099", "71">>,
                                 <<"120", "0", "6099", "130">> >>)],
     linux   |-> [by_major_version |->
                    ("120" :> << <<"120", "0", "6099", "71">> >>)]]
EdgeVersionsA ==
    [windows |-> [by_major_version |->
                    ("120" :> << <<"120", "0", "2210", "61">> >>)]]
OperaVersionsA ==
    [linux   |-> [by_major_version |->
                    ("96" :> << <<"96", "0", "4693", "50">> >>)]]
ChromiumVersionsA ==
    [by_major_version |->
        ("120" :> << <<"120", "0", "6099", "0">> >>
         @@ "112" :> << <<"112", "0", "5615", "0">> >>)]

FS_A ==
    [market_share |-> File(MarketA), os_distribution |-> File(OsDistA),
     device_models |-> File(DeviceModelsA),
     chrome_versions |-> File(ChromeVersionsA), edge_versions |-> File(EdgeVersionsA),
     opera_versions |-> File(OperaVersionsA),
     chromium_versions |-> File(ChromiumVersionsA)]
FS_B ==
    [FS_A EXCEPT !.market_share = File(MarketB), !.chrome_versions = Missing,
                 !.edge_versions = Missing, !.opera_versions = Missing,
                 !.chromium_versions = Missing]
FS_Zero == [FS_A EXCEPT !.market_share = File(MarketZero)]
FS_NoMarket == [FS_A EXCEPT !.market_share = Missing]
FS_CorruptOs == [FS_A EXCEPT !.os_distribution = Corrupt]
FS_CorruptChrome == [FS_B EXCEPT !.chrome_versions = Corrupt]

GoodFileSystems == {FS_A, FS_B}
FileSystems == {FS_A, FS_B, FS_Zero, FS_NoMarket, FS_CorruptOs, FS_CorruptChrome}

----------------------------------------------------------------------------
(* Spec: the sequential program constructing the catalog, with the files   *)
(* free to change between calls.                                           *)

NoOp == [op |-> "none", err |-> "none", obj |-> 0]

Threads == 1..NThreads
ThreadsIdle ==
    /\ pc = [t \in Threads |-> "idle"]
    /\ tl = [t \in Threads |-> [saw_none |-> FALSE, self |-> 0]]
    /\ n_process = 0

NoLocals == [session |-> NoSession, session_rand |-> Random(0)]
GenIdle ==
    /\ gens = <<>>
    /\ calls = <<>>
    /\ gpc = [t \in Threads |-> "idle"]
    /\ gl = [t \in Threads |-> NoLocals]

LoaderIdle ==
    /\ files = FS_A
    /\ cls_instance = 0
    /\ objs = <<>>
    /\ n_ctor = 0
    /\ n_loads = 0
    /\ returned = {}
    /\ last = NoOp
    /\ ThreadsIdle
    /\ GenIdle

\* DataLoader.__new__: the singleton, created when _instance is None
New(instance, os) ==
    IF instance = 0 THEN [instance |-> Len(os) + 1, objs |-> Append(os, NewInstance)]
    ELSE [instance |-> instance, objs |-> os]

\* DataLoader(): __new__, then __init__ on what it returned
DataLoaderCall(instance, os, fs) ==
    LET n == New(instance, os)
        r == DataLoaderInit(n.objs[n.instance], fs)
    IN [instance |-> n.instance,
        objs |-> [n.objs EXCEPT ![n.instance] = r.self],
        err |-> r.err, loads |-> r.loads]

Init ==
    /\ files \in FileSystems
    /\ cls_instance = 0
    /\ objs = <<>>
    /\ n_ctor = 0
    /\ n_loads = 0
    /\ returned = {}
    /\ last = NoOp
    /\ weights_arg = <<>>
    /\ built = NotBuilt
    /\ drawn = NoDraw
    /\ call_arg = NoCall
    /\ call_out = NoCall
    /\ expand_arg = NoCall
    /\ expanded = NoCall
    /\ seed_arg = NoCall
    /\ sub_seed = NoCall
    /\ market_arg = <<>>
    /\ processed = NotProcessed
    /\ ThreadsIdle
    /\ GenIdle

EnvChange ==
    /\ files' \in FileSystems \ {files}
    /\ last' = [op |-> "env", err |-> "none", obj |-> 0]
    /\ UNCHANGED <<cls_instance, objs, n_ctor, n_loads, returned>>
    /\ UNCHANGED <<samplerVars, pureVars, marketVars, threadVars, genVars>>

NewDataLoader ==
    /\ n_ctor < MaxCtor
    /\ LET r == DataLoaderCall(cls_instance, objs, files)
       IN /\ cls_instance' = r.instance
          /\ objs' = r.objs
          /\ n_loads' = n_loads + r.loads
          /\ returned' = IF r.err = "none" THEN returned \cup {r.instance} ELSE returned
          /\ last' = [op |-> "DataLoader", err |-> r.err,
                      obj |-> IF r.err = "none" THEN r.instance ELSE 0]
    /\ n_ctor' = n_ctor + 1
    /\ UNCHANGED files
    /\ UNCHANGED <<samplerVars, pureVars, marketVars, threadVars, genVars>>

Next == EnvChange \/ NewDataLoader

Spec == Init /\ [][Next]_vars

----------------------------------------------------------------------------
(* SpecThreads: threads that each call DataLoader() once, before any       *)
(* instance exists.  The interpreter may switch threads between any two    *)
(* statements of __new__ and __init__, none of which takes a lock.         *)

InitThreads ==
    /\ files \in GoodFileSystems
    /\ cls_instance = 0
    /\ objs = <<>>
    /\ n_ctor = 0
    /\ n_loads = 0
    /\ returned = {}
    /\ last = NoOp
    /\ pc = [t \in Threads |-> "new_check"]
    /\ tl = [t \in Threads |-> [saw_none |-> FALSE, self |-> 0]]
    /\ n_process = 0
    /\ GenIdle
    /\ weights_arg = <<>>
    /\ built = NotBuilt
    /\ drawn = NoDraw
    /\ call_arg = NoCall
    /\ call_out = NoCall
    /\ expand_arg = NoCall
    /\ expanded = NoCall
    /\ seed_arg = NoCall
    /\ sub_seed = NoCall
    /\ market_arg = <<>>
    /\ processed = NotProcessed

ThreadFrame == UNCHANGED <<files, n_ctor, last, samplerVars, pureVars, marketVars, genVars>>

\* __new__: `if cls._instance is None`
NewCheck(t) ==
    /\ pc[t] = "new_check"
    /\ tl' = [tl EXCEPT ![t].saw_none = (cls_instance = 0)]
    /\ pc' = [pc EXCEPT ![t] = IF cls_instance = 0 THEN "new_create" ELSE "new_return"]
    /\ UNCHANGED <<cls_instance, objs, n_loads, returned, n_process>>
    /\ ThreadFrame

\* __new__: `cls._instance = super().__new__(cls)`
NewCreate(t) ==
    /\ pc[t] = "new_create"
    /\ objs' = Append(objs, NewInstance)
    /\ cls_instance' = Len(objs) + 1
    /\ pc' = [pc EXCEPT ![t] = "new_return"]
    /\ UNCHANGED <<tl, n_loads, returned, n_process>>
    /\ ThreadFrame

\* __new__: `return cls._instance`
NewReturn(t) ==
    /\ pc[t] = "new_return"
    /\ tl' = [tl EXCEPT ![t].self = cls_instance]
    /\ pc' = [pc EXCEPT ![t] = "init_check"]
    /\ UNCHANGED <<cls_instance, objs, n_loads, returned, n_process>>
    /\ ThreadFrame

\* __init__: `if not self._loaded`; when it is loaded the constructor returns
InitCheck(t) ==
    /\ pc[t] = "init_check"
    /\ pc' = [pc EXCEPT ![t] = IF SkipsLoad(objs[tl[t].self]) THEN "done" ELSE "reset"]
    /\ returned' = IF SkipsLoad(objs[tl[t].self]) THEN returned \cup {tl[t].self}
                   ELSE returned
    /\ UNCHANGED <<cls_instance, objs, tl, n_loads, n_process>>
    /\ ThreadFrame

\* __init__ lines 37-52: the containers are set to empty
InitReset(t) ==
    /\ pc[t] = "reset"
    /\ objs' = [objs EXCEPT ![tl[t].self] = ResetContainers(@)]
    /\ pc' = [pc EXCEPT ![t] = "load"]
    /\ UNCHANGED <<cls_instance, tl, n_loads, returned, n_process>>
    /\ ThreadFrame

\* __init__ line 54: _load_data (the files are readable here)
InitLoad(t) ==
    /\ pc[t] = "load"
    /\ objs' = [objs EXCEPT ![tl[t].self] = LoadData(@, files).self]
    /\ n_loads' = n_loads + 1
    /\ pc' = [pc EXCEPT ![t] = "process"]
    /\ UNCHANGED <<cls_instance, tl, returned, n_process>>
    /\ ThreadFrame

\* __init__ line 55: _process_market_share
InitProcess(t) ==
    /\ pc[t] = "process"
    /\ objs' = [objs EXCEPT ![tl[t].self] = ProcessOn(@).self]
    /\ n_process' = n_process + 1
    /\ pc' = [pc EXCEPT ![t] = "caches"]
    /\ UNCHANGED <<cls_instance, tl, n_loads, returned>>
    /\ ThreadFrame

\* __init__ lines 57-66: the OS caches
InitCaches(t) ==
    /\ pc[t] = "caches"
    /\ objs' = [objs EXCEPT ![tl[t].self] = BuildOsCaches(@)]
    /\ pc' = [pc EXCEPT ![t] = "set_loaded"]
    /\ UNCHANGED <<cls_instance, tl, n_loads, returned, n_process>>
    /\ ThreadFrame

\* __init__ line 67: `self._loaded = True`, and the constructor returns
InitSetLoaded(t) ==
    /\ pc[t] = "set_loaded"
    /\ objs' = [objs EXCEPT ![tl[t].self]._loaded = TRUE]
    /\ returned' = returned \cup {tl[t].self}
    /\ pc' = [pc EXCEPT ![t] = "done"]
    /\ UNCHANGED <<cls_instance, tl, n_loads, n_process>>
    /\ ThreadFrame

NextThreads ==
    \E t \in Threads :
        \/ NewCheck(t)
        \/ NewCreate(t)
        \/ NewReturn(t)
        \/ InitCheck(t)
        \/ InitReset(t)
        \/ InitLoad(t)
        \/ InitProcess(t)
        \/ InitCaches(t)
        \/ InitSetLoaded(t)

SpecThreads == InitThreads /\ [][NextThreads]_vars

----------------------------------------------------------------------------
(* SpecGen: the sequential program constructing generators and calling     *)
(* generate on them, keyed and unkeyed.                                    *)

Seeds == {NoSeed, 1}
Entropies == {2, 3}
Sessions == {NoSession, Session(<<"a">>), Session(<<"a", "b">>)}

InitGen ==
    /\ files \in GoodFileSystems
    /\ cls_instance = 0
    /\ objs = <<>>
    /\ n_ctor = 0
    /\ n_loads = 0
    /\ returned = {}
    /\ last = NoOp
    /\ weights_arg = <<>>
    /\ built = NotBuilt
    /\ drawn = NoDraw
    /\ call_arg = NoCall
    /\ call_out = NoCall
    /\ expand_arg = NoCall
    /\ expanded = NoCall
    /\ seed_arg = NoCall
    /\ sub_seed = NoCall
    /\ market_arg = <<>>
    /\ processed = NotProcessed
    /\ ThreadsIdle
    /\ GenIdle

\* UserAgentGenerator.__init__ lines 16-65, over what DataLoader() gave
GeneratorOver(seed, entropy, r) ==
    IF r.err = "none"
    THEN UserAgentGenerator(seed, entropy, r.objs[r.instance], r.instance)
    ELSE [err |-> r.err]

\* the program's state after a constructor call that ran DataLoader() as r
\* and ended as g
Constructed(r, g) ==
    /\ cls_instance' = r.instance
    /\ objs' = r.objs
    /\ n_loads' = n_loads + r.loads
    /\ returned' = IF r.err = "none" THEN returned \cup {r.instance} ELSE returned
    /\ gens' = IF g.err = "none" THEN Append(gens, g) ELSE gens

\* UserAgentGenerator(seed): line 15 calls DataLoader(), the rest of __init__
\* builds the generator over what it returned
NewGenerator(seed, entropy) ==
    /\ Len(gens) < MaxGens
    /\ Constructed(DataLoaderCall(cls_instance, objs, files),
                   GeneratorOver(seed, entropy,
                                 DataLoaderCall(cls_instance, objs, files)))
    /\ UNCHANGED <<files, n_ctor, last, calls, gpc, gl>>
    /\ UNCHANGED <<samplerVars, pureVars, marketVars, threadVars>>

\* the program's state after generate(session) on generator c ended as out
Generated(c, session, out) ==
    /\ gens' = [gens EXCEPT ![c].rand = out.rs.self]
    /\ calls' = Append(calls, [gen |-> c, session |-> session,
                               err |-> out.err, val |-> out.val])

\* gens[c].generate(session)
Generate(c, session) ==
    /\ Len(calls) < MaxCalls
    /\ Generated(c, session, generate(gens[c], objs[gens[c].loader], session))
    /\ UNCHANGED <<loaderVars, gpc, gl>>
    /\ UNCHANGED <<samplerVars, pureVars, marketVars, threadVars>>

NextGen ==
    \/ \E seed \in Seeds, entropy \in Entropies : NewGenerator(seed, entropy)
    \/ \E c \in 1..Len(gens), session \in Sessions : Generate(c, session)

SpecGen == InitGen /\ [][NextGen]_vars

----------------------------------------------------------------------------
(* SpecCatalog: the sequential program using one catalog: generators are   *)
(* constructed, generate is called, the catalog is queried, and the files  *)
(* change in between.                                                      *)

CatalogSeeds == {1}
CatalogSessions == {NoSession, Session(<<"a">>)}
Queries == {"get_device_models", "get_os_template", "get_os_choices_and_weights"}

\* the files change between two operations of the program
GenEnvChange ==
    /\ files' \in GoodFileSystems \ {files}
    /\ UNCHANGED <<cls_instance, objs, n_ctor, n_loads, returned, last>>
    /\ UNCHANGED <<samplerVars, pureVars, marketVars, threadVars, genVars>>

\* what a query of the catalog answers
Answer(loader, query) ==
    IF query = "get_device_models" THEN get_device_models(loader, "samsung")
    ELSE IF query = "get_os_template" THEN get_os_template(loader, "windows")
    ELSE get_os_choices_and_weights(loader, "chrome", "desktop_weights")

\* a query of the catalog generator c holds
Query(c, query) ==
    /\ last' = [op |-> query, err |-> "none",
                obj |-> Len(Answer(objs[gens[c].loader], query))]
    /\ UNCHANGED <<files, cls_instance, objs, n_ctor, n_loads, returned>>
    /\ UNCHANGED <<samplerVars, pureVars, marketVars, threadVars, genVars>>

NextCatalog ==
    \/ GenEnvChange
    \/ \E seed \in CatalogSeeds, entropy \in {0} : NewGenerator(seed, entropy)
    \/ \E c \in 1..Len(gens), session \in CatalogSessions : Generate(c, session)
    \/ \E c \in 1..Len(gens), query \in Queries : Query(c, query)

SpecCatalog == InitGen /\ [][NextCatalog]_vars

----------------------------------------------------------------------------
(* SpecGenThreads: threads calling generate(session), with a session key,  *)
(* on one shared generator.  The interpreter may switch threads between    *)
(* the statements of generate.                                             *)

ThreadSeeds == {1, 2}
ThreadSessions == {Session(<<"a">>), Session(<<"b">>), Session(<<"a", "b">>)}

InitGenThreads ==
    /\ files \in GoodFileSystems
    /\ LET r == DataLoaderCall(0, <<>>, files)
       IN /\ cls_instance = r.instance
          /\ objs = r.objs
          /\ returned = {r.instance}
          /\ \E seed \in ThreadSeeds :
                 gens = <<UserAgentGenerator(seed, 0, r.objs[r.instance], r.instance)>>
    /\ n_ctor = 1
    /\ n_loads = 1
    /\ last = NoOp
    /\ calls = <<>>
    /\ gpc = [t \in Threads |-> "idle"]
    /\ gl = [t \in Threads |-> NoLocals]
    /\ weights_arg = <<>>
    /\ built = NotBuilt
    /\ drawn = NoDraw
    /\ call_arg = NoCall
    /\ call_out = NoCall
    /\ expand_arg = NoCall
    /\ expanded = NoCall
    /\ seed_arg = NoCall
    /\ sub_seed = NoCall
    /\ market_arg = <<>>
    /\ processed = NotProcessed
    /\ ThreadsIdle

GenThreadFrame ==
    UNCHANGED <<loaderVars, samplerVars, pureVars, marketVars, threadVars>>

\* lines 279-281: the call makes its own stream from the session key
GenEnter(t, session) ==
    /\ gpc[t] = "idle"
    /\ Len(calls) + Cardinality({u \in Threads : gpc[u] = "body"}) < MaxCalls
    /\ gl' = [gl EXCEPT ![t] = [session |-> session,
                                session_rand |-> SessionRand(gens[1], session)]]
    /\ gpc' = [gpc EXCEPT ![t] = "body"]
    /\ UNCHANGED <<gens, calls>>
    /\ GenThreadFrame

\* lines 285-396: the candidate draw and what follows, until the call ends
GenBody(t) ==
    /\ gpc[t] = "body"
    /\ Generated(1, gl[t].session,
                 GenerateBody(gens[1], objs[gens[1].loader], "local",
                              [self |-> gens[1].rand, local |-> gl[t].session_rand]))
    /\ gpc' = [gpc EXCEPT ![t] = "idle"]
    /\ gl' = [gl EXCEPT ![t] = NoLocals]
    /\ GenThreadFrame

NextGenThreads ==
    \/ \E t \in Threads, session \in ThreadSessions : GenEnter(t, session)
    \/ \E t \in Threads : GenBody(t)

SpecGenThreads == InitGenThreads /\ [][NextGenThreads]_vars

----------------------------------------------------------------------------
(* SpecSampler: the sampler's constructor applied to every weight vector.  *)

WeightVectors == SeqsUpTo((0 - 1)..MaxWeight, MaxWeights)

InitSampler ==
    /\ weights_arg \in WeightVectors
    /\ built = NotBuilt
    /\ drawn = NoDraw
    /\ call_arg = NoCall
    /\ call_out = NoCall
    /\ expand_arg = NoCall
    /\ expanded = NoCall
    /\ seed_arg = NoCall
    /\ sub_seed = NoCall
    /\ market_arg = <<>>
    /\ processed = NotProcessed
    /\ LoaderIdle

Construct ==
    /\ built = NotBuilt
    /\ built' = AliasSampler(weights_arg, "random")
    /\ UNCHANGED <<weights_arg, drawn, marketVars, loaderVars, threadVars, genVars, pureVars>>

\* the state of the random module when sample() is called: any
RandomStates == [seed : 0..(RngMod - 1), pos : 0..(RngMod - 1)]

\* built.sample(), the random module being in state st
Sample(st) ==
    /\ built # NotBuilt
    /\ built.err = "none"
    /\ drawn' = [die |-> randrange([random |-> st], "random", built.n).val,
                 err |-> CallSample(built, {}, [random |-> st]).err,
                 val |-> CallSample(built, {}, [random |-> st]).val]
    /\ UNCHANGED <<weights_arg, built, marketVars, loaderVars, threadVars, genVars, pureVars>>

NextSampler ==
    \/ Construct
    \/ \E st \in RandomStates : Sample(st)

SpecSampler == InitSampler /\ [][NextSampler]_vars

----------------------------------------------------------------------------
(* SpecExpand: VersionExpander.generate_full_version applied once to       *)
(* arguments drawn from bounded sets: a family, a marketing version, a      *)
(* platform or None, a loader holding one historical pool or None, and the  *)
(* state of the random module.                                             *)

ExpandFamilies == {CHROME, EDGE, OPERA, FIREFOX, SAFARI, UNKNOWN}
ExpandVersions == {<<"120">>, <<"TP">>, <<"17", "2">>, <<"121">>}
ExpandPlatforms == {NoPlatform, "windows", "linux"}
\* the full versions a historical file can list
RecordedVersions == {<<"120", "0", "1", "2">>, <<"119", "0", "0", "1">>}
\* a historical file: one platform, one major version, its pool
VersionsFile(platform, major, pool) ==
    [p \in {platform} |-> [by_major_version |-> [m \in {major} |-> pool]]]
\* a loader whose three historical files are raw
LoaderOver(raw) ==
    [chrome_versions_raw |-> raw, edge_versions_raw |-> raw,
     opera_versions_raw |-> raw]

InitExpand ==
    /\ \E family \in ExpandFamilies, version \in ExpandVersions,
          platform \in ExpandPlatforms, seed \in 0..(RngMod - 1) :
          \/ expand_arg = [family |-> family, version |-> version,
                           platform |-> platform, loader |-> NoLoader,
                           rand |-> Random(seed)]
          \/ \E p \in {"windows", "linux"}, m \in {"120", "TP"},
                pool \in SeqsUpTo(RecordedVersions, MaxPool) :
                 expand_arg = [family |-> family, version |-> version,
                               platform |-> platform,
                               loader |-> LoaderOver(VersionsFile(p, m, pool)),
                               rand |-> Random(seed)]
    /\ expanded = NoCall
    /\ seed_arg = NoCall
    /\ sub_seed = NoCall
    /\ weights_arg = <<>>
    /\ built = NotBuilt
    /\ drawn = NoDraw
    /\ call_arg = NoCall
    /\ call_out = NoCall
    /\ market_arg = <<>>
    /\ processed = NotProcessed
    /\ LoaderIdle

\* generate_full_version(family, version, platform=platform, loader=loader),
\* rand being the random module
Expand ==
    /\ expanded = NoCall
    /\ expanded' = [err |-> "none",
                    val |-> generate_full_version(expand_arg.family,
                                expand_arg.version, "random",
                                [random |-> expand_arg.rand],
                                expand_arg.platform, expand_arg.loader).val]
    /\ UNCHANGED <<expand_arg, seed_arg, sub_seed, call_arg, call_out>>
    /\ UNCHANGED <<samplerVars, marketVars, loaderVars, threadVars, genVars>>

NextExpand == Expand

SpecExpand == InitExpand /\ [][NextExpand]_vars

----------------------------------------------------------------------------
(* SpecSeed: UserAgentGenerator._session_to_seed applied once to a composer *)
(* and a session key drawn from bounded sets.  The seeds include the ones   *)
(* where h * 31 + ord(c) passes 2^31 - 1.                                   *)

BaseSeeds == {0 - 2, 0, 1, 69273665, 69273666, 69273667, MASK}
SeedKeys == {NoSession} \cup {Session(chars) : chars \in SeqsUpTo({"a", "b"}, MaxKey)}

InitSeed ==
    /\ \E seed \in BaseSeeds, pos \in 0..2, session \in SeedKeys :
           seed_arg = [self |-> [seed |-> seed,
                                 rand |-> [seed |-> seed, pos |-> pos]],
                       session |-> session]
    /\ sub_seed = NoCall
    /\ expand_arg = NoCall
    /\ expanded = NoCall
    /\ weights_arg = <<>>
    /\ built = NotBuilt
    /\ drawn = NoDraw
    /\ call_arg = NoCall
    /\ call_out = NoCall
    /\ market_arg = <<>>
    /\ processed = NotProcessed
    /\ LoaderIdle

\* self._session_to_seed(session)
SessionToSeed ==
    /\ sub_seed = NoCall
    /\ sub_seed' = [err |-> "none",
                    val |-> _session_to_seed(seed_arg.self, seed_arg.session)]
    /\ UNCHANGED <<seed_arg, expand_arg, expanded, call_arg, call_out>>
    /\ UNCHANGED <<samplerVars, marketVars, loaderVars, threadVars, genVars>>

NextSeed == SessionToSeed

SpecSeed == InitSeed /\ [][NextSeed]_vars

----------------------------------------------------------------------------
(* SpecBrands: ClientHintsGenerator.generate_brands applied once to a       *)
(* family, a major version and a random stream drawn from bounded sets.     *)

BrandFamilies == {CHROME, EDGE, OPERA, FIREFOX, SAFARI, UNKNOWN}
BrandVersions == {<<"120">>, <<"109">>, <<"80">>, <<"TP">>}

\* the variables of the other specifications, idle
OthersIdle ==
    /\ expand_arg = NoCall
    /\ expanded = NoCall
    /\ seed_arg = NoCall
    /\ sub_seed = NoCall
    /\ weights_arg = <<>>
    /\ built = NotBuilt
    /\ drawn = NoDraw
    /\ market_arg = <<>>
    /\ processed = NotProcessed
    /\ LoaderIdle
CallFrame ==
    /\ UNCHANGED <<call_arg, expand_arg, expanded, seed_arg, sub_seed>>
    /\ UNCHANGED <<samplerVars, marketVars, loaderVars, threadVars, genVars>>

InitBrands ==
    /\ \E family \in BrandFamilies, major_version \in BrandVersions,
          seed \in 0..(RngMod - 1), pos \in 0..MaxPos :
           call_arg = [family |-> family, major_version |-> major_version,
                       rand |-> [seed |-> seed, pos |-> pos]]
    /\ call_out = NoCall
    /\ OthersIdle

\* ClientHintsGenerator.generate_brands(family, major_version, rand=rand)
GenerateBrands ==
    /\ call_out = NoCall
    /\ call_out' = [err |-> "none",
                    val |-> generate_brands(call_arg.family, call_arg.major_version)]
    /\ CallFrame

NextBrands == GenerateBrands

SpecBrands == InitBrands /\ [][NextBrands]_vars

----------------------------------------------------------------------------
(* SpecHeaders: get_headers and get_all_client_hints applied once to a      *)
(* UserAgentData whose hint fields are, each on its own, empty or not.      *)

InitHeaders ==
    /\ \E ch_brands \in {<<>>, generate_brands(CHROME, <<"120">>)},
          ch_full_version_list \in {<<>>, << <<"Chromium", <<"120", "0", "1", "2">> >> >>},
          ch_mobile \in {"", "?0", "?1"},
          ch_platform \in {"", "Android"},
          ch_platform_version \in {<<>>, <<"13", "0", "0">>},
          ch_model \in {"", "Pixel 7"},
          ch_arch \in {"", "arm"},
          ch_bitness \in {"", "64"} :
           call_arg = [user_agent |-> <<"Mozilla/5.0 (", "Linux; Android 10; K", ")">>,
                       meta_os |-> ANDROID, meta_browser |-> CHROME,
                       meta_device |-> MOBILE,
                       ch_brands |-> ch_brands,
                       ch_full_version_list |-> ch_full_version_list,
                       ch_mobile |-> ch_mobile, ch_platform |-> ch_platform,
                       ch_platform_version |-> ch_platform_version,
                       ch_model |-> ch_model, ch_arch |-> ch_arch,
                       ch_bitness |-> ch_bitness]
    /\ call_out = NoCall
    /\ OthersIdle

\* data.get_headers() and data.get_all_client_hints()
GetHeaders ==
    /\ call_out = NoCall
    /\ call_out' = [err |-> "none", headers |-> get_headers(call_arg),
                    hints |-> get_all_client_hints(call_arg)]
    /\ CallFrame

NextHeaders == GetHeaders

SpecHeaders == InitHeaders /\ [][NextHeaders]_vars

----------------------------------------------------------------------------
(* SpecResolve: UserAgentGenerator._resolve_os applied once, on a composer  *)
(* built over a catalog, to one of the catalog's candidates and a stream.   *)
(* The OS-distribution table is the usual one, one that has no entry for    *)
(* mobile Chrome, or one that lists iOS for it.                             *)

OsDistNoMobileChrome ==
    [OsDistA EXCEPT !.mobile_weights =
        [ios_saf |-> <<OsChoice("ios", "iOS", 1)>>,
         op_mob  |-> <<OsChoice("android", "Android", 1)>>]]
OsDistCrossed ==
    [OsDistA EXCEPT !.mobile_weights.and_chr = <<OsChoice("ios", "iOS", 1)>>]
ResolveFileSystems ==
    {FS_A, [FS_A EXCEPT !.os_distribution = File(OsDistNoMobileChrome)],
     [FS_A EXCEPT !.os_distribution = File(OsDistCrossed)]}

\* the arguments of a call on the composer built with seed 1 over what
\* DataLoader() gave as r
ResolveArgs(r, i, rand) ==
    [self |-> GeneratorOver(1, 0, r), loader |-> r.objs[r.instance],
     candidate |-> r.objs[r.instance].candidates[i], rand |-> rand]

InitResolve ==
    /\ \E fs \in ResolveFileSystems, seed \in 0..(RngMod - 1), pos \in 0..MaxPos :
          \E i \in 1..Len(DataLoaderCall(0, <<>>, fs).objs[1].candidates) :
             call_arg = ResolveArgs(DataLoaderCall(0, <<>>, fs), i,
                                    [seed |-> seed, pos |-> pos])
    /\ call_out = NoCall
    /\ OthersIdle

\* self._resolve_os(candidate, rand=rand)
ResolveOs ==
    /\ call_out = NoCall
    /\ call_out' = _resolve_os(call_arg.self, call_arg.loader, call_arg.candidate,
                               "local",
                               [self |-> call_arg.self.rand, local |-> call_arg.rand])
    /\ CallFrame

NextResolve == ResolveOs

SpecResolve == InitResolve /\ [][NextResolve]_vars

----------------------------------------------------------------------------
(* SpecUaString: UserAgentGenerator._build_ua_string applied once to the   *)
(* family and device of a market key, an OS token, a flattened full        *)
(* version and a marketing version, as generate() calls it.                *)

UaTokens ==
    {t.ua_token : t \in UNION {Range(OsDistA.os_templates[os]) :
                                  os \in DOMAIN OsDistA.os_templates}}
        \cup {<<"Linux; Android 10; K">>}
UaFullVersions == {<<"120", "0", "0", "0">>, <<"109", "0", "0", "0">>,
                   <<"TP", "0", "0", "0">>}
UaMarketingVersions == {<<"17", "2">>, <<"120">>}

InitUaString ==
    /\ \E key \in DOMAIN MARKET_KEY_MAP, os_token \in UaTokens,
          full_version \in UaFullVersions, marketing_version \in UaMarketingVersions :
           call_arg = [family |-> MARKET_KEY_MAP[key][1],
                       device |-> MARKET_KEY_MAP[key][2],
                       os_token |-> os_token, full_version |-> full_version,
                       marketing_version |-> marketing_version]
    /\ call_out = NoCall
    /\ OthersIdle

\* self._build_ua_string(family, device, os_token, full_version, marketing_version)
BuildUaString ==
    /\ call_out = NoCall
    /\ call_out' = _build_ua_string(call_arg.family, call_arg.device, call_arg.os_token,
                                    call_arg.full_version, call_arg.marketing_version)
    /\ CallFrame

NextUaString == BuildUaString

SpecUaString == InitUaString /\ [][NextUaString]_vars

----------------------------------------------------------------------------
(* SpecMarket: _process_market_share applied to every small market table.  *)

SampleKeys == {"chrome", "ios_saf", "zzz"}
SampleVersion == [chrome |-> <<"120">>, ios_saf |-> <<"17", "2">>, zzz |-> <<"1">>]
ShareValues == {0 - 1, 0, 2}
KeyOrders ==
    {<<>>} \cup {<<a>> : a \in SampleKeys}
           \cup {<<p[1], p[2]>> : p \in {q \in SampleKeys \X SampleKeys : q[1] # q[2]}}
EntriesOf(key) ==
    {[version |-> SampleVersion[key], global_share |-> sh] : sh \in ShareValues}
        \cup {[version |-> SampleVersion[key]]}
MarketTablesOver(keys) ==
    IF keys = <<>> THEN {<<>>}
    ELSE IF Len(keys) = 1
         THEN {<< <<keys[1], e>> >> : e \in SeqsUpTo(EntriesOf(keys[1]), MaxEntries)}
         ELSE {<< <<keys[1], e1>>, <<keys[2], e2>> >> :
                   e1 \in SeqsUpTo(EntriesOf(keys[1]), MaxEntries),
                   e2 \in SeqsUpTo(EntriesOf(keys[2]), MaxEntries)}
InitMarket ==
    /\ \E keys \in KeyOrders : market_arg \in MarketTablesOver(keys)
    /\ processed = NotProcessed
    /\ weights_arg = <<>>
    /\ built = NotBuilt
    /\ drawn = NoDraw
    /\ call_arg = NoCall
    /\ call_out = NoCall
    /\ expand_arg = NoCall
    /\ expanded = NoCall
    /\ seed_arg = NoCall
    /\ sub_seed = NoCall
    /\ LoaderIdle

Process ==
    /\ processed = NotProcessed
    /\ processed' = ProcessMarketShare(market_arg)
    /\ UNCHANGED <<market_arg, samplerVars, pureVars, loaderVars, threadVars, genVars>>

NextMarket == Process

SpecMarket == InitMarket /\ [][NextMarket]_vars

\* the entries of a table that survive the flattening: recognized key and
\* share > 0
RECURSIVE KeptEntries(_)
KeptEntries(table) ==
    IF table = <<>> THEN <<>>
    ELSE SelectSeq(Head(table)[2],
                   LAMBDA e : /\ Head(table)[1] \in DOMAIN MARKET_KEY_MAP
                              /\ "global_share" \in DOMAIN e
                              /\ e.global_share > 0)
         \o KeptEntries(Tail(table))

----------------------------------------------------------------------------
(* The claims. *)

\* the calls of the log made so far on generator c without a session key
UnkeyedCalls(c, upto) ==
    {j \in 1..upto : calls[j].gen = c /\ calls[j].session.is_none}

RECURSIVE UnkeyedRun(_, _, _)
\* a generator after k generate() calls and no other call, with what the
\* last of them gave
UnkeyedRun(self, loader, k) ==
    IF k = 0 THEN [self |-> self, err |-> "none", val |-> NoRecord]
    ELSE LET before == UnkeyedRun(self, loader, k - 1).self
             out == generate(before, loader, NoSession)
         IN [self |-> [before EXCEPT !.rand = out.rs.self],
             err |-> out.err, val |-> out.val]

\* generator c as its constructor left it
AsConstructed(c) == [gens[c] EXCEPT !.rand.pos = 0]

C3_SameSeedSameUnkeyedRecords ==
    \A i \in 1..Len(calls) :
        (calls[i].session.is_none /\ gens[calls[i].gen].rand.seed = 1) =>
            /\ calls[i].err = "none"
            /\ \A j \in 1..Len(calls) :
                   (/\ calls[j].session.is_none
                    /\ calls[j].gen # calls[i].gen
                    /\ gens[calls[j].gen].rand.seed = 1
                    /\ Cardinality(UnkeyedCalls(calls[j].gen, j))
                           = Cardinality(UnkeyedCalls(calls[i].gen, i)))
                       => calls[j].val = calls[i].val

\* C4: when threads call generate(session) with session keys on one shared
\* generator at once, each call returns the record the same call returns
\* when it runs alone, and leaves the shared stream as it was.
C4_ConcurrentKeyedCallsAsAlone ==
    /\ gens[1].rand = AsConstructed(1).rand
    /\ \A i \in 1..Len(calls) :
           LET alone == generate(AsConstructed(1), objs[gens[1].loader],
                                 calls[i].session)
           IN /\ calls[i].err = "none"
              /\ calls[i].val = alone.val

\* an operation that may only read the catalog
CatalogReader ==
    \/ \E seed \in CatalogSeeds, entropy \in {0} : NewGenerator(seed, entropy)
    \/ \E c \in 1..Len(gens), session \in CatalogSessions : Generate(c, session)
    \/ \E c \in 1..Len(gens), query \in Queries : Query(c, query)

\* C7: once the catalog has been constructed, no generate call, no
\* generator construction and no catalog query changes a catalog field
\* (candidates, weights, OS tables and templates, device models, version
\* pools), whatever the files hold by then.
C7_CatalogReadOnly ==
    [][((IF cls_instance = 0 THEN FALSE ELSE objs[cls_instance]._loaded)
            /\ CatalogReader)
          => /\ cls_instance' = cls_instance
             /\ Catalog(objs'[cls_instance]) = Catalog(objs[cls_instance])]_vars

\* a second generator has been constructed on the catalog, generate has
\* been called and the catalog queried, and the market-share file is no
\* longer the one the catalog was loaded from
C7_Witness ==
    /\ Len(gens) = 2
    /\ Len(calls) >= 1
    /\ last.op \in Queries
    /\ files.market_share.data # objs[cls_instance].market_raw

\* C11: a sample() call on a sampler that was constructed over n weights
\* returns an index i with 0 <= i < n and does not raise; every entry of the
\* alias table lies in 0..n-1.
C11_SampleInRange ==
    /\ (built # NotBuilt /\ built.err = "none") =>
           \A i \in 0..(built.n - 1) : built.alias[i] \in 0..(built.n - 1)
    /\ drawn # NoDraw =>
           /\ drawn.err = "none"
           /\ drawn.val \in 0..(Len(weights_arg) - 1)

\* a sample() call on a sampler over three weights returned the alias of
\* the column the die chose, the last index
C11_Witness ==
    /\ drawn # NoDraw
    /\ Len(weights_arg) = 3
    /\ drawn.val # drawn.die
    /\ drawn.val = 2

\* the mass the table gives index i, scaled by total: prob[i], and
\* total - prob[j] for every column j whose alias is i
TableMass(t, i) ==
    t.prob[i] + SeqSum([k \in 1..t.n |->
                           IF t.alias[k - 1] = i THEN t.total - t.prob[k - 1] ELSE 0])

\* C12: for non-negative weights with a positive sum the alias table
\* represents the distribution exactly: for every index i, prob[i] plus the
\* sum of 1 - prob[j] over the j whose alias is i equals n * w_i / sum(w)
\* (both sides scaled by sum(w), the arithmetic being exact).
C12_TableIsExact ==
    (/\ built # NotBuilt
     /\ built.err = "none"
     /\ \A k \in 1..Len(weights_arg) : weights_arg[k] >= 0) =>
        \A i \in 0..(built.n - 1) :
            TableMass(built, i) = built.n * weights_arg[i + 1]
C12_Witness ==
    /\ built # NotBuilt
    /\ built.err = "none"
    /\ \A k \in 1..Len(weights_arg) : weights_arg[k] >= 0
    /\ built.n = 3
    /\ \E i, j \in 0..2 :
           /\ i # j
           /\ built.prob[i] < built.total
           /\ built.prob[j] < built.total
           /\ built.prob[j] > 0
           /\ built.alias[i] = built.alias[j]

\* C10: constructing a sampler fails (with the sampler's one error kind,
\* ValueError) exactly when the weight vector is empty or its sum is <= 0;
\* so it succeeds for every non-empty vector of non-negative weights with
\* positive sum.
C10_FailsIffEmptyOrNonPositive ==
    built # NotBuilt =>
        /\ (built.err = "ValueError")
               <=> (Len(weights_arg) = 0 \/ SeqSum(weights_arg) <= 0)
        /\ built.err \in {"ValueError", "none"}
        /\ built.err = "none" =>
               /\ built.n = Len(weights_arg)
               /\ DOMAIN built.prob = 0..(built.n - 1)
               /\ DOMAIN built.alias = 0..(built.n - 1)

\* a vector of three non-negative weights, one of them 0, was accepted
C10_Witness ==
    /\ built # NotBuilt
    /\ built.err = "none"
    /\ Len(weights_arg) = 3
    /\ 0 \in Range(weights_arg)
    /\ \A i \in DOMAIN weights_arg : weights_arg[i] >= 0

\* what a completed load leaves on an instance
LoadComplete(self) ==
    /\ self._loaded
    /\ self.candidates # <<>>
    /\ self.candidates = FlattenMarket(self.market_raw)
    /\ Len(self.weights) = Len(self.candidates)
    /\ DOMAIN self.os_dist_raw # {}
    /\ DOMAIN self.device_models_raw # {}
    /\ DOMAIN self._os_weight_cache = {"mobile_weights", "desktop_weights"}

\* C5: when threads race to construct the catalog for the first time, the
\* data load and the candidate flattening run exactly once, and a thread
\* whose constructor has returned never sees candidates, weights or OS
\* tables that are empty or partly populated.
C5_LoadOnceNoTornRead ==
    /\ n_loads <= 1
    /\ n_process <= 1
    /\ \A o \in returned :
           /\ objs[o].candidates # <<>>
           /\ Len(objs[o].weights) = Len(objs[o].candidates)
           /\ DOMAIN objs[o].os_dist_raw # {}
           /\ DOMAIN objs[o]._os_weight_cache # {}

\* C6: every DataLoader() construction returns the same instance, and once a
\* construction has loaded successfully, a later construction neither runs
\* the load again nor changes candidates and weights (whatever the files
\* hold by then).
C6_SingletonLoadsOnce ==
    [][NewDataLoader =>
          /\ last'.err = "none" => returned' = {last'.obj}
          /\ Len(objs') = 1
          /\ (IF cls_instance = 0 THEN FALSE ELSE objs[cls_instance]._loaded) =>
                 /\ n_loads' = n_loads
                 /\ last'.err = "none"
                 /\ last'.obj = cls_instance
                 /\ objs'[cls_instance].candidates = objs[cls_instance].candidates
                 /\ objs'[cls_instance].weights = objs[cls_instance].weights]_vars

\* a second construction returned after the market-share file had changed
\* from the one that was loaded
C6_Witness ==
    /\ last.op = "DataLoader"
    /\ last.err = "none"
    /\ n_ctor >= 2
    /\ n_loads = 1
    /\ files.market_share.st = "ok"
    /\ files.market_share.data # objs[last.obj].market_raw

\* C8: after a construction has failed with DataLoadError, a later
\* DataLoader() call either completes a full load or raises again; no call
\* returns an instance whose load did not complete.
C8_NoPartialCatalog ==
    /\ \A o \in returned : LoadComplete(objs[o])
    /\ last.op = "DataLoader" =>
           /\ last.err \in {"none", "DataLoadError"}
           /\ last.err = "none" => last.obj \in returned

\* a construction returned after an earlier one had failed
C8_Witness ==
    /\ last.op = "DataLoader"
    /\ last.err = "none"
    /\ n_loads >= 2

\* C9: catalog construction raises DataLoadError whenever the flattened
\* candidate list would be empty: the table is empty, holds only
\* unrecognized keys, or has no entry with share > 0.
C9_EmptyFlatteningRaises ==
    processed # NotProcessed =>
        (KeptEntries(market_arg) = <<>> => processed.err = "DataLoadError")

\* a table with a recognized key whose entries all have share <= 0 (or none)
\* was processed and refused
C9_Witness ==
    /\ processed # NotProcessed
    /\ processed.err = "DataLoadError"
    /\ Len(market_arg) = 2
    /\ market_arg[1][1] = "chrome"
    /\ Len(market_arg[1][2]) = 2

\* the hint keys a header map can hold
HintKeys ==
    {"Sec-CH-UA", "Sec-CH-UA-Mobile", "Sec-CH-UA-Platform",
     "Sec-CH-UA-Full-Version-List"}

\* the token the legacy string carries once the freeze applies
FrozenToken == "Linux; Android 10; K"

\* C13: on a constructed composer generate() never raises, whatever the
\* catalog holds and whatever the session key is: every call ends without
\* an error and gives a complete record.
C13_GenerateNeverRaises ==
    \A i \in 1..Len(calls) :
        /\ calls[i].err = "none"
        /\ UserAgentDataFields \subseteq DOMAIN calls[i].val

\* C14: every call gives a record, and a record whose meta_browser is
\* Firefox or Safari has every structured header field empty and a header
\* map without any Sec-CH-UA* key.
C14_NoHintsForFirefoxSafari ==
    \A i \in 1..Len(calls) :
        /\ calls[i].err = "none"
        /\ calls[i].val.meta_browser \in {FIREFOX, SAFARI} =>
               /\ calls[i].val.ch_brands = <<>>
               /\ calls[i].val.ch_full_version_list = <<>>
               /\ calls[i].val.ch_mobile = ""
               /\ calls[i].val.ch_platform = ""
               /\ calls[i].val.ch_platform_version = <<>>
               /\ calls[i].val.ch_model = ""
               /\ calls[i].val.ch_arch = ""
               /\ calls[i].val.ch_bitness = ""
               /\ DOMAIN get_headers(calls[i].val) \cap HintKeys = {}

\* C15: every call gives a record, and a record whose family is neither
\* Firefox nor Safari has ch_mobile "?1" when meta_device is mobile and "?0"
\* when it is desktop.
C15_MobileTokenFollowsDevice ==
    \A i \in 1..Len(calls) :
        /\ calls[i].err = "none"
        /\ calls[i].val.meta_browser \notin {FIREFOX, SAFARI} =>
               /\ calls[i].val.meta_device = MOBILE => calls[i].val.ch_mobile = "?1"
               /\ calls[i].val.meta_device = DESKTOP => calls[i].val.ch_mobile = "?0"

\* C16: every call gives a record, and the record of a mobile candidate on
\* Android either carries the frozen token as its OS token and does not embed
\* the sampled model (Chrome, Edge or Opera with an engine major of 110 or
\* more; for Chrome the engine major is the major of the full version), or
\* embeds the sampled model in the legacy string.
C16_FrozenTokenOrModel ==
    \A i \in 1..Len(calls) :
        /\ calls[i].err = "none"
        /\ (calls[i].val.meta_device = MOBILE /\ calls[i].val.meta_os = ANDROID) =>
               IF /\ calls[i].val.meta_browser = CHROME
                  /\ int(calls[i].val.ch_full_version_list[2][2][1]).val >= 110
               THEN /\ calls[i].val.user_agent[2] = FrozenToken
                    /\ calls[i].val.ch_model \notin Range(calls[i].val.user_agent)
               ELSE \/ /\ calls[i].val.meta_browser \in {EDGE, OPERA}
                       /\ calls[i].val.user_agent[2] = FrozenToken
                       /\ calls[i].val.ch_model \notin Range(calls[i].val.user_agent)
                    \/ calls[i].val.meta_browser = FIREFOX
                    \/ calls[i].val.ch_model \in Range(calls[i].val.user_agent)

\* C17: every call gives a record, and a record the freeze applies to still
\* has the sampled model in ch_model and the resolved OS's platform and
\* platform version in ch_platform and ch_platform_version.
C17_FreezeLeavesHints ==
    \A i \in 1..Len(calls) :
        /\ calls[i].err = "none"
        /\ FrozenToken \in Range(calls[i].val.user_agent) =>
               /\ calls[i].val.ch_model # ""
               /\ calls[i].val.ch_model # "K"
               /\ calls[i].val.ch_platform = "Android"
               /\ calls[i].val.ch_platform_version # <<>>
\* the historical pool the catalog of the call holds for its family, major
\* version and platform; empty when the call has no loader
PoolOf(arg) ==
    IF arg.loader = NoLoader THEN <<>>
    ELSE IF arg.family = CHROME
    THEN get_chrome_versions(arg.loader, arg.version[1], PlatformOrDefault(arg.platform))
    ELSE IF arg.family = EDGE
    THEN get_edge_versions(arg.loader, arg.version[1], PlatformOrDefault(arg.platform))
    ELSE get_opera_versions(arg.loader, arg.version[1], PlatformOrDefault(arg.platform))

\* C18: generate_full_version(family, v) never raises; it returns v unchanged
\* when v has more than one dot-separated component, and otherwise v + ".0"
\* for Firefox and for an unrecognized family, v for Safari, and
\* v + ".0.0.0" for Chrome, Edge and Opera when there is no historical pool
\* for (family, v, platform), v being an integer or not.
C18_ExpandByFamily ==
    expanded # NoCall =>
        /\ expanded.err = "none"
        /\ Len(expand_arg.version) > 1 => expanded.val = expand_arg.version
        /\ Len(expand_arg.version) = 1 =>
               /\ expand_arg.family \in {FIREFOX, UNKNOWN} =>
                      expanded.val = <<expand_arg.version[1], "0">>
               /\ expand_arg.family = SAFARI => expanded.val = expand_arg.version
               /\ (expand_arg.family \in {CHROME, EDGE, OPERA}
                      /\ PoolOf(expand_arg) = <<>>) =>
                      expanded.val = <<expand_arg.version[1], "0", "0", "0">>
\* a version that is not an integer, expanded for Opera over a catalog that
\* has pools, but none for it
C18_Witness ==
    /\ expanded # NoCall
    /\ expand_arg.family = OPERA
    /\ expand_arg.version = <<"TP">>
    /\ expand_arg.loader # NoLoader
    /\ get_opera_versions(expand_arg.loader, "120", "linux") # <<>>
    /\ expanded.val = <<"TP", "0", "0", "0">>
\* C19: for Chrome, Edge and Opera, generate_full_version(family, major,
\* platform) returns a member of the catalog's pool for (family, major,
\* platform), the platform defaulting to "windows", whenever that pool is not
\* empty, and whatever the pool holds the returned version begins with the
\* requested major version.
C19_PoolMemberBeginsWithMajor ==
    (/\ expanded # NoCall
     /\ expand_arg.family \in {CHROME, EDGE, OPERA}
     /\ Len(expand_arg.version) = 1) =>
        /\ PoolOf(expand_arg) # <<>> => expanded.val \in Range(PoolOf(expand_arg))
        /\ expanded.val[1] = expand_arg.version[1]
\* the half of C19 that holds: a member of the pool whenever it is not empty
PoolMemberReturned ==
    (/\ expanded # NoCall
     /\ expand_arg.family \in {CHROME, EDGE, OPERA}
     /\ Len(expand_arg.version) = 1
     /\ PoolOf(expand_arg) # <<>>) =>
        expanded.val \in Range(PoolOf(expand_arg))
\* C20 as amended: the session sub-seed is the fold h_0 = base seed,
\* h_{k+1} = (h_k * 31 + charCode(c_k)) mod 2^31 over the characters of the
\* session key, whatever else the composer holds.
C20_FoldsModuloTwoTo31 ==
    (sub_seed # NoCall /\ ~seed_arg.session.is_none) =>
        sub_seed.val = FoldMod(seed_arg.self.seed, seed_arg.session.chars, MASK)
\* a key of two characters whose fold passes 2^31 - 1
C20_Witness ==
    /\ sub_seed # NoCall
    /\ ~seed_arg.session.is_none
    /\ Len(seed_arg.session.chars) = 2
    /\ seed_arg.self.rand.pos > 0
    /\ FoldMod(seed_arg.self.seed, seed_arg.session.chars, MASK)
           # FoldMod(seed_arg.self.seed, seed_arg.session.chars, MASK - 1)

\* C20 as stated: the session sub-seed is the fold h_0 = base seed,
\* h_{k+1} = (h_k * 31 + charCode(c_k)) mod (2^31 - 1) over the characters
\* of the session key.
C20_FoldsModuloMersenne ==
    (sub_seed # NoCall /\ ~seed_arg.session.is_none) =>
        sub_seed.val = FoldMod(seed_arg.self.seed, seed_arg.session.chars, MASK - 1)
\* the brands that are not decoys
RealBrandNames == {"Chromium", "Google Chrome", "Microsoft Edge", "Opera"}
DisplayBrand(family) ==
    IF family = CHROME THEN "Google Chrome"
    ELSE IF family = EDGE THEN "Microsoft Edge" ELSE "Opera"
\* the places of a brand list that hold the brand `name`
PlacesOf(brands, name) == {k \in 1..Len(brands) : brands[k][1] = name}
\* the places of a brand list that hold a decoy
DecoyPlaces(brands) == {k \in 1..Len(brands) : brands[k][1] \notin RealBrandNames}

\* C21: for Chrome, Edge and Opera the brand list is exactly one decoy entry,
\* the "Chromium" entry and the family's display brand; for Chrome with major
\* M it has three entries, and Chromium and Google Chrome both carry M.
C21_BrandListShape ==
    (call_out # NoCall /\ call_arg.family \in {CHROME, EDGE, OPERA}) =>
        /\ call_out.err = "none"
        /\ Len(call_out.val) = 3
        /\ Cardinality(DecoyPlaces(call_out.val)) = 1
        /\ Cardinality(PlacesOf(call_out.val, "Chromium")) = 1
        /\ Cardinality(PlacesOf(call_out.val, DisplayBrand(call_arg.family))) = 1
        /\ call_arg.family = CHROME =>
               \A k \in PlacesOf(call_out.val, "Chromium")
                        \cup PlacesOf(call_out.val, "Google Chrome") :
                   call_out.val[k][2] = call_arg.major_version
C21_Witness ==
    /\ call_out # NoCall
    /\ call_arg.family = CHROME
    /\ call_arg.major_version = <<"120">>
    /\ <<"Google Chrome", <<"120">> >> \in Range(call_out.val)

\* C22: the decoy of the brand list is randomized from the stream of the
\* call: its two separators and its version are the ones drawn from that
\* stream, and the brands stand in the order the shuffle with that stream
\* gives them.
C22_DecoyFollowsStream ==
    (call_out # NoCall /\ call_arg.family \in {CHROME, EDGE, OPERA}) =>
        LET drawn_brands == _get_brand_tuples(call_arg.family, call_arg.major_version,
                                "rand", [rand |-> call_arg.rand]).val
        IN /\ DecoyPlaces(call_out.val) = DecoyPlaces(drawn_brands)
           /\ PlacesOf(call_out.val, "Chromium") = PlacesOf(drawn_brands, "Chromium")
           /\ \A k \in DecoyPlaces(call_out.val) : call_out.val[k] = drawn_brands[k]
\* the keys a map holds for the fields of `self` that are not empty, `keys`
\* giving the key of each field and `empty` the empty value of its type
KeysOfNonEmpty(self, fields, keys, empty) ==
    {keys[f] : f \in {g \in fields : self[g] # empty[g]}}
HintKeyOf ==
    [ch_brands |-> "Sec-CH-UA", ch_mobile |-> "Sec-CH-UA-Mobile",
     ch_platform |-> "Sec-CH-UA-Platform",
     ch_full_version_list |-> "Sec-CH-UA-Full-Version-List",
     ch_platform_version |-> "Sec-CH-UA-Platform-Version",
     ch_model |-> "Sec-CH-UA-Model", ch_arch |-> "Sec-CH-UA-Arch",
     ch_bitness |-> "Sec-CH-UA-Bitness"]
EmptyOf ==
    [ch_brands |-> <<>>, ch_mobile |-> "", ch_platform |-> "",
     ch_full_version_list |-> <<>>, ch_platform_version |-> <<>>,
     ch_model |-> "", ch_arch |-> "", ch_bitness |-> ""]
HeaderFields == {"ch_brands", "ch_mobile", "ch_platform", "ch_full_version_list"}
OtherHintFields == {"ch_platform_version", "ch_model", "ch_arch", "ch_bitness"}
QuotedFields == {"ch_platform", "ch_model", "ch_arch", "ch_bitness"}
\* the value a map must hold for field f
Rendered(self, f) ==
    IF f \in QuotedFields THEN "\"" \o self[f] \o "\"" ELSE self[f]

\* C23: get_headers() holds the legacy string and exactly the entries of
\* brand list, mobile flag, platform and full-version list whose field is
\* not empty; get_all_client_hints() holds those hint entries and exactly
\* the non-empty ones of platform version, model, architecture and bitness;
\* no entry of either map is empty, and platform, model, architecture and
\* bitness are quoted.
C23_HeaderMaps ==
    call_out # NoCall =>
        /\ DOMAIN call_out.headers =
               {"User-Agent"} \cup KeysOfNonEmpty(call_arg, HeaderFields, HintKeyOf, EmptyOf)
        /\ call_out.headers["User-Agent"] = call_arg.user_agent
        /\ call_arg.user_agent # <<>>
        /\ DOMAIN call_out.hints =
               KeysOfNonEmpty(call_arg, HeaderFields \cup OtherHintFields, HintKeyOf, EmptyOf)
        /\ \A f \in HeaderFields :
               HintKeyOf[f] \in DOMAIN call_out.headers =>
                   /\ call_out.headers[HintKeyOf[f]] = Rendered(call_arg, f)
                   /\ call_out.headers[HintKeyOf[f]] # EmptyOf[f]
        /\ \A f \in HeaderFields \cup OtherHintFields :
               HintKeyOf[f] \in DOMAIN call_out.hints =>
                   /\ call_out.hints[HintKeyOf[f]] = Rendered(call_arg, f)
                   /\ call_out.hints[HintKeyOf[f]] # EmptyOf[f]
\* a record with a platform and a model but no mobile flag and no bitness
C23_Witness ==
    /\ call_out # NoCall
    /\ DOMAIN call_out.headers = {"User-Agent", "Sec-CH-UA-Platform"}
    /\ call_out.headers["Sec-CH-UA-Platform"] = "\"Android\""
    /\ DOMAIN call_out.hints = {"Sec-CH-UA-Platform", "Sec-CH-UA-Model"}
    /\ call_out.hints["Sec-CH-UA-Model"] = "\"Pixel 7\""
\* C24: after a successful load, candidates is the list of the market-share
\* entries with a recognized key and a share > 0, in table order, and weights
\* is parallel to it: as long as candidates, not empty, and weights[i] is
\* candidates[i].share, which is > 0.
C24_CandidatesAreKeptEntries ==
    (processed # NotProcessed /\ processed.err = "none") =>
        /\ Len(processed.candidates) = Len(KeptEntries(market_arg))
        /\ Len(processed.weights) = Len(processed.candidates)
        /\ Len(processed.candidates) > 0
        /\ \A i \in 1..Len(processed.candidates) :
               /\ processed.candidates[i].version = KeptEntries(market_arg)[i].version
               /\ processed.candidates[i].share = KeptEntries(market_arg)[i].global_share
               /\ processed.weights[i] = processed.candidates[i].share
               /\ processed.weights[i] > 0
\* a table of two keys, one of them unrecognized, that lost entries and kept
\* two
C24_Witness ==
    /\ processed # NotProcessed
    /\ processed.err = "none"
    /\ Len(market_arg) = 2
    /\ market_arg[1][1] = "zzz"
    /\ Len(market_arg[1][2]) = 2
    /\ Len(market_arg[2][2]) = 2
    /\ Len(processed.candidates) = 1
    /\ "global_share" \in DOMAIN market_arg[2][2][1]
    /\ market_arg[2][2][1].global_share = 0
\* C25: when the OS restriction of a candidate is a concrete OS, the OS
\* resolved for a draw of that candidate is that OS, whatever the
\* OS-distribution table holds.
C25_RestrictionIsResolved ==
    (call_out # NoCall /\ call_arg.candidate.os_restriction # UNKNOWN) =>
        /\ call_out.err = "none"
        /\ call_out.type = call_arg.candidate.os_restriction
\* the half of C25 a call without a distribution shows: such a call ends
\* without an error and gives the restriction
RestrictionKeptByFallback ==
    (/\ call_out # NoCall
     /\ call_arg.candidate.os_restriction # UNKNOWN
     /\ call_out.err = "none") =>
        call_out.type = call_arg.candidate.os_restriction

\* major.minor.0 for major in lo1..hi1 and minor in lo2..hi2
SynthesizedVersions(lo1, hi1, lo2, hi2) ==
    {<<str(a), str(b), "0">> : a \in lo1..hi1, b \in lo2..hi2}
\* the platform versions the templates of an OS allow
TemplateVersions(templates, os) ==
    {t.platform_version : t \in {u \in Range(templates) : "platform_version" \in DOMAIN u}}
        \cup (IF \A u \in Range(templates) : "platform_version" \in DOMAIN u THEN {}
              ELSE IF os = IOS THEN SynthesizedVersions(16, 17, 0, 5)
              ELSE IF os = LINUX THEN SynthesizedVersions(5, 6, 4, 19)
              ELSE {<<"1", "0", "0">>})

\* C27: a call that resolves an OS from the distribution of its candidate
\* ends without an error, and the platform version it gives is the explicit
\* one of a template of that OS, or, for a template without one,
\* major.minor.0 with major in 16..17 and minor in 0..5 for iOS and major in
\* 5..6 and minor in 4..19 for Linux.
C27_PlatformVersionOfTemplate ==
    (/\ call_out # NoCall
     /\ OsCacheKey(call_arg.candidate) \in DOMAIN call_arg.self._os_choice_cache) =>
        /\ call_out.err = "none"
        /\ get_os_template(call_arg.loader, call_out.type) # <<>> =>
               call_out.platform_version
                   \in TemplateVersions(get_os_template(call_arg.loader, call_out.type),
                                        call_out.type)
\* the piece of a legacy string that follows the piece tok
PieceAfter(ua, tok) == ua[(CHOOSE k \in 1..(Len(ua) - 1) : ua[k] = tok) + 1]

\* C26: every call gives a record, and in the record of an Opera or Edge
\* candidate the engine major is the Opera major plus 16, respectively the
\* Edge major, and that one major is the major of the Chrome/ token of the
\* legacy string, of the Chromium entry of the brand list and of the
\* Chromium entry of the full-version list.
C26_OneEngineMajor ==
    \A i \in 1..Len(calls) :
        /\ calls[i].err = "none"
        /\ calls[i].val.meta_browser \in {OPERA, EDGE} =>
               /\ calls[i].val.ch_brands[2][1] = "Chromium"
               /\ calls[i].val.ch_brands[2][2][1]
                     = (IF calls[i].val.meta_browser = OPERA
                        THEN str(int(calls[i].val.ch_brands[3][2][1]).val + 16)
                        ELSE calls[i].val.ch_brands[3][2][1])
               /\ PieceAfter(calls[i].val.user_agent, "Chrome/")
                     = calls[i].val.ch_brands[2][2][1]
               /\ calls[i].val.ch_full_version_list[2][1] = "Chromium"
               /\ calls[i].val.ch_full_version_list[2][2][1]
                     = calls[i].val.ch_brands[2][2][1]
\* C28: sample() never returns an index whose weight is 0.  For every
\* weight vector with a positive sum, the column of such an index keeps
\* nothing for itself (its coin never succeeds) and every column that has
\* the index as its alias keeps everything (its coin never fails), so no die
\* and no coin give the index; and no draw made gave one.
C28_ZeroWeightNeverReturned ==
    /\ (built # NotBuilt /\ built.err = "none") =>
           \A i \in 0..(built.n - 1) :
               weights_arg[i + 1] = 0 =>
                   /\ built.prob[i] = 0
                   /\ \A j \in 0..(built.n - 1) :
                          (j # i /\ built.alias[j] = i) => built.prob[j] >= built.total
    /\ (drawn # NoDraw /\ drawn.err = "none") =>
           /\ drawn.val \in 0..(Len(weights_arg) - 1)
           /\ weights_arg[drawn.val + 1] # 0
\* the die chose the column of a zero weight among three weights, one of
\* them negative, and sample() returned the alias of that column
C28_Witness ==
    /\ drawn # NoDraw
    /\ drawn.err = "none"
    /\ Len(weights_arg) = 3
    /\ \E k \in 1..3 : weights_arg[k] < 0
    /\ weights_arg[drawn.die + 1] = 0
    /\ drawn.val # drawn.die
\* C29: for every base seed, negative ones included, and every session key
\* that is not None, the empty string included, the sub-seed is an integer
\* in 0..2^31 - 1.
C29_SubSeedInRange ==
    (sub_seed # NoCall /\ ~seed_arg.session.is_none) =>
        /\ sub_seed.err = "none"
        /\ sub_seed.val \in 0..MASK
\* the part of C29 about keys of at least one character
SubSeedOfNonEmptyKeyInRange ==
    (sub_seed # NoCall /\ ~seed_arg.session.is_none
        /\ seed_arg.session.chars # <<>>) =>
        sub_seed.val \in 0..MASK
\* the pieces of a legacy string that hold the token Mobile
MobilePieces == {"Mobile ", "Mobile/15E148"}

\* C30: the token Mobile appears in a legacy string only when the device is
\* mobile, never for a desktop candidate.
C30_MobileOnlyForMobile ==
    (/\ call_out # NoCall
     /\ call_out.err = "none"
     /\ Range(call_out.val) \cap MobilePieces # {}) =>
        call_arg.device = MOBILE
\* the same for every family but Safari
MobileOnlyForMobileButSafari ==
    (/\ call_out # NoCall
     /\ call_out.err = "none"
     /\ call_arg.family # SAFARI
     /\ Range(call_out.val) \cap MobilePieces # {}) =>
        call_arg.device = MOBILE
====
